---- MODULE Spec2Model ----
(***************************************************************************)
(* A model of the blockchain node of this repository: the Transaction and  *)
(* Block records, the account ledger (AccountManager), the mempool and the *)
(* chain (Blockchain), and the threads of a Node that call into them.      *)
(*                                                                         *)
(* Abstractions.                                                           *)
(*  - Money.  AccountManager stores integer micro-units (1e-6 coin) and    *)
(*    apply_transactions computes on Decimals quantized to 7 places, so an *)
(*    amount is an integer number of tenth-micro-units (1e-7 coin) and a   *)
(*    stored balance an integer number of micro-units.  The two balance    *)
(*    checks (add_transaction line 38, apply_transactions line 99) are     *)
(*    made on Python floats: there the amounts are the doubles nearest to  *)
(*    their numerals and are added with the rounding of a double.          *)
(*  - SHA-256.  A digest is modelled by its pre-image (a tuple), so that   *)
(*    equal digests mean equal pre-images.  The mining counter of a block  *)
(*    records the number of leading '0' characters it was searched for and *)
(*    the fields it was searched with; the digest of a pre-image has these *)
(*    zeros when its other fields are the ones the counter was found for,  *)
(*    and none otherwise: a field altered after mining loses them.  The    *)
(*    hash of the genesis block is a literal of 32 zeros and the digest of *)
(*    no block.  The order of the digests of transactions as hex strings   *)
(*    depends on the keys in use: every order is possible.                 *)
(*  - ECDSA.  A signature is the pair of the key that signed and the       *)
(*    message signed; it verifies against that key and message only.       *)
(*  - A Python exception leaving a method is the outcome "Raise".          *)
(***************************************************************************)
EXTENDS Integers, Sequences, FiniteSets, Bags, TLC

\* ------------------------------------------------------------------ bounds
MaxChain == 2
MaxChainConc == 3
MaxPending == 3
MaxNonce == 2
MaxNonceMp == 4
MaxChainMp == 3
MaxChainCb == 3
MaxStored == 9
MaxFresh == 3
MaxPeer == 3
MaxRequester == 4
MaxNode == 3
MaxFrames == 2
MaxPayload == 2

\* --------------------------------------------------------------- constants
TenthsPerMicro == 10
TenthsPerCoin == 10000000
Reward == 10
InitialMicro == 10000000
Difficulty == 6
MinPendingToMine == 3
MAX_PEERS == 10
BootstrapNode_GOSSIP_COUNT == 3

SEED == "SEED"
K2 == "K2"
MINER == "M"
COINBASE == "COINBASE"

\* ------------------------------------------------------------ transaction.py
NoHash == <<FALSE, "", "", 0>>
NoSignature == [by |-> "", msg |-> NoHash]

\* Transaction.calculate_hash: the digest of {is_coinbase, sender, receiver,
\* amount}; no other field enters the pre-image.
TxCalculateHash(tx) == <<tx.is_coinbase, tx.sender, tx.receiver, tx.amount>>

\* Transaction.__init__ with tx_hash and signature left to their defaults.
\* The constructor sets no nonce attribute: has_nonce is FALSE.
NewTransaction(receiver, amount, sender, is_coinbase) ==
    LET s == IF is_coinbase THEN COINBASE ELSE sender
        pre == [is_coinbase |-> is_coinbase, sender |-> s,
                receiver |-> receiver, amount |-> amount]
    IN  [is_coinbase |-> is_coinbase, sender |-> s, receiver |-> receiver,
         amount |-> amount, signature |-> NoSignature,
         tx_hash |-> TxCalculateHash(pre), has_nonce |-> FALSE, nonce |-> 0]

\* tx.nonce = n, set on the object by the caller before it is signed.
WithNonce(tx, n) == [tx EXCEPT !.has_nonce = TRUE, !.nonce = n]

\* Transaction.sign_transaction with the private key of `key`.
SignTransaction(tx, key) ==
    IF tx.is_coinbase THEN tx
    ELSE [tx EXCEPT !.signature = [by |-> key, msg |-> tx.tx_hash]]

\* VerifyingKey.verify(signature, tx_hash) for the public key `key`.
Verify(key, signature, msg) == signature.by = key /\ signature.msg = msg

\* Keys that decode to a point of the curve.
IsPublicKey(s) == s \in {SEED, K2}

\* Senders that bytes.fromhex decodes and that are the encoding of no point:
\* VerifyingKey.from_string raises MalformedPointError, an AssertionError,
\* which the except clause of line 67 does not name.  Every other string
\* that is no key is one bytes.fromhex refuses with a ValueError.
NOKEY == "abcd"
HexNoKeys ==
    {NOKEY, "01010101010101010101010101010101010101010101010101010101010101010101010101010101010101010101010101010101010101010101010101010101"}

\* The outcome of a method that returns a bool.
BoolStr(b) == IF b THEN "True" ELSE "False"

\* Transaction.is_valid: "True", "False", or "Raise" when the exception of
\* from_string leaves the method.
TxIsValid(tx) ==
    IF tx.is_coinbase THEN BoolStr(tx.amount = Reward * TenthsPerCoin)
    ELSE IF tx.sender = "" \/ tx.signature = NoSignature THEN "False"
    ELSE IF tx.sender \in HexNoKeys THEN "Raise"
    ELSE IF ~IsPublicKey(tx.sender) THEN "False"
    ELSE BoolStr(Verify(tx.sender, tx.signature, tx.tx_hash))

\* The loop of Block.is_valid, lines 64-68: the first transaction that is
\* not valid ends it.
TransactionsValid(txs) ==
    LET bad == {i \in 1..Len(txs) : TxIsValid(txs[i]) # "True"}
    IN  IF bad = {} THEN "True"
        ELSE TxIsValid(txs[CHOOSE i \in bad : \A j \in bad : i <= j])

\* ------------------------------------------------------------------ block.py
\* The value of the attribute nonce.  A counter that the search of mine_block
\* stopped at is modelled by what it was found for: the other fields of the
\* pre-image and the number of leading '0' characters it gives their digest.
\* NoCounter is the nonce of the constructor, 0.
NoCounter == [zeros |-> 0, of |-> <<>>]

\* The literal that create_genesis assigns to the hash of the genesis block:
\* 32 characters '0', the digest of no block.
GenesisZeros == 32
GenesisHash == <<-1, <<>>, <<>>, NoCounter, 0>>
GenesisPreviousHash == <<>>

TxHashes(txs) == [i \in 1..Len(txs) |-> txs[i].tx_hash]

\* Block.calculate_hash
BlockCalculateHash(b) ==
    <<b.index, b.previous_hash, TxHashes(b.transactions), b.nonce, b.timestamp>>

\* hash.startswith("0" * difficulty): the digest of a pre-image starts with
\* the zeros its counter was found to give, when the counter was found for
\* the other fields of that very pre-image, and with none otherwise.
StartsWithZeros(h, difficulty) ==
    IF difficulty <= 0 THEN TRUE
    ELSE IF h = GenesisHash THEN difficulty <= GenesisZeros
    ELSE /\ h[4].zeros >= difficulty
         /\ h[4].of = <<h[1], h[2], h[3], h[5]>>

\* Block.__init__ with hash left to its default.
NewBlock(index, previous_hash, transactions, timestamp, nonce) ==
    LET pre == [index |-> index, previous_hash |-> previous_hash,
                transactions |-> transactions, nonce |-> nonce,
                timestamp |-> timestamp]
    IN  [index |-> index, previous_hash |-> previous_hash,
         transactions |-> transactions, nonce |-> nonce,
         timestamp |-> timestamp, hash |-> BlockCalculateHash(pre)]

\* Block.mine_block: a block whose hash attribute has the zeros is left as
\* it is; otherwise the counter goes up to the first value that gives the
\* digest of the block `difficulty` zeros.
MineBlock(b, difficulty) ==
    IF StartsWithZeros(b.hash, difficulty) THEN b
    ELSE LET found == [zeros |-> difficulty,
                       of |-> <<b.index, b.previous_hash, TxHashes(b.transactions),
                                b.timestamp>>]
             b1 == [b EXCEPT !.nonce = found]
         IN  [b1 EXCEPT !.hash = BlockCalculateHash(b1)]

\* Block(...) with the nonce of the constructor, then mine_block(zeros).
MinedBlock(index, previous_hash, transactions, timestamp, zeros) ==
    MineBlock(NewBlock(index, previous_hash, transactions, timestamp, NoCounter), zeros)

\* Block.is_valid without the test of lines 56-58.
BlockIsValidWithoutProofOfWork(b, difficulty, previous_block) ==
    IF b.previous_hash # previous_block.hash THEN "False"
    ELSE IF b.hash # BlockCalculateHash(b) THEN "False"
    ELSE TransactionsValid(b.transactions)

\* Block.is_valid: "True", "False", or "Raise" when is_valid of one of the
\* transactions raises.
BlockIsValid(b, difficulty, previous_block) ==
    IF b.previous_hash # previous_block.hash THEN "False"
    ELSE IF ~StartsWithZeros(b.hash, difficulty) THEN "False"
    ELSE IF b.hash # BlockCalculateHash(b) THEN "False"
    ELSE TransactionsValid(b.transactions)

\* Blockchain.create_genesis
CreateGenesis ==
    [index |-> 0, previous_hash |-> GenesisPreviousHash, transactions |-> <<>>,
     nonce |-> NoCounter, timestamp |-> 0, hash |-> GenesisHash]

\* ------------------------------------------------------------ Python floats
\* An amount is a float, the double nearest to its decimal numeral; a balance
\* is a Decimal.  A double is modelled by its exact value: a sign and its
\* magnitude in units of 2^-(LimbBits * FractionLimbs), of which every double
\* of 1e-7 or more is a whole number.  The magnitude is written in digits of
\* LimbBits bits each ("limbs"), lowest first, with no zero limb in front.
FloatDigits == 53
LimbBits == 14
FractionLimbs == 6

LimbBase == 2 ^ LimbBits
NoLimbs == <<>>
FiveToSeven == TenthsPerCoin \div (2 ^ 7)

\* The limbs of a natural number.
RECURSIVE Limbs(_)
Limbs(n) == IF n = 0 THEN NoLimbs ELSE <<n % LimbBase>> \o Limbs(n \div LimbBase)

\* The limbs without the zeros in front.
LimbTrim(a) ==
    LET used == {i \in 1..Len(a) : a[i] # 0}
    IN  IF used = {} THEN NoLimbs
        ELSE SubSeq(a, 1, CHOOSE i \in used : \A j \in used : j <= i)

\* a * LimbBase^k
LimbShift(a, k) == IF a = NoLimbs THEN NoLimbs ELSE [i \in 1..k |-> 0] \o a

\* a + b + carry
RECURSIVE LimbAdd(_, _, _)
LimbAdd(a, b, carry) ==
    IF a = NoLimbs /\ b = NoLimbs THEN Limbs(carry)
    ELSE LET s == (IF a = NoLimbs THEN 0 ELSE Head(a))
                  + (IF b = NoLimbs THEN 0 ELSE Head(b)) + carry
         IN  <<s % LimbBase>> \o LimbAdd(IF a = NoLimbs THEN a ELSE Tail(a),
                                         IF b = NoLimbs THEN b ELSE Tail(b),
                                         s \div LimbBase)

\* a - b - borrow, for a >= b + borrow
RECURSIVE LimbSub(_, _, _)
LimbSub(a, b, borrow) ==
    IF a = NoLimbs THEN NoLimbs
    ELSE LET s == Head(a) - (IF b = NoLimbs THEN 0 ELSE Head(b)) - borrow
         IN  <<(s + LimbBase) % LimbBase>>
                 \o LimbSub(Tail(a), IF b = NoLimbs THEN b ELSE Tail(b),
                            IF s < 0 THEN 1 ELSE 0)

\* a < b
LimbLess(a, b) ==
    IF Len(a) # Len(b) THEN Len(a) < Len(b)
    ELSE \E i \in 1..Len(a) :
            a[i] < b[i] /\ \A j \in (i + 1)..Len(a) : a[j] = b[j]

\* a * c + carry, for a natural number c of at most 17 bits
RECURSIVE LimbTimes(_, _, _)
LimbTimes(a, c, carry) ==
    IF a = NoLimbs THEN Limbs(carry)
    ELSE <<(Head(a) * c + carry) % LimbBase>>
             \o LimbTimes(Tail(a), c, (Head(a) * c + carry) \div LimbBase)

\* The quotient and the remainder of a by the natural number c of at most 17
\* bits: the long division has reached the limb a[i] with the remainder `rem`
\* and the quotient limbs `quot`.
RECURSIVE LimbDivide(_, _, _, _, _)
LimbDivide(a, c, i, rem, quot) ==
    IF i = 0 THEN [q |-> quot, r |-> rem]
    ELSE LimbDivide(a, c, i - 1, (rem * LimbBase + a[i]) % c,
                    <<(rem * LimbBase + a[i]) \div c>> \o quot)

\* The number of binary digits of the magnitude a.
BitLength(a) ==
    IF a = NoLimbs THEN 0
    ELSE LimbBits * (Len(a) - 1)
         + CHOOSE k \in 1..LimbBits : 2 ^ (k - 1) <= a[Len(a)] /\ a[Len(a)] < 2 ^ k

\* Rounding the magnitude a, which has more than FloatDigits binary digits and
\* is followed by a fraction that is not zero when `more`: the digits below
\* digit s of limb w + 1 go, and the rest goes up by one when the digits
\* dropped are more than half of it, or are half of it and the rest is odd.
RoundAt(a, more, w, s) ==
    IF /\ IF s = 0 THEN a[w] \div (2 ^ (LimbBits - 1)) = 1
                    ELSE ((a[w + 1] % (2 ^ s)) \div (2 ^ (s - 1))) = 1
       /\ \/ more
          \/ (a[w + 1] \div (2 ^ s)) % 2 = 1
          \/ IF s = 0 THEN a[w] % (2 ^ (LimbBits - 1)) # 0
                       ELSE (a[w + 1] % (2 ^ s)) % (2 ^ (s - 1)) # 0
          \/ \E i \in 1..(IF s = 0 THEN w - 1 ELSE w) : a[i] # 0
    THEN LimbAdd([i \in 1..Len(a) |->
                     IF i <= w THEN 0
                     ELSE IF i = w + 1 THEN a[i] - (a[i] % (2 ^ s)) ELSE a[i]],
                 LimbShift(<<2 ^ s>>, w), 0)
    ELSE [i \in 1..Len(a) |->
             IF i <= w THEN 0
             ELSE IF i = w + 1 THEN a[i] - (a[i] % (2 ^ s)) ELSE a[i]]

\* Rounding to the nearest double, ties to the even one: the magnitude a,
\* followed by a fraction that is not zero when `more`, keeps its FloatDigits
\* highest binary digits.
RoundToDouble(a, more) ==
    IF BitLength(a) <= FloatDigits THEN a
    ELSE RoundAt(a, more, (BitLength(a) - FloatDigits) \div LimbBits,
                 (BitLength(a) - FloatDigits) % LimbBits)

\* The exact value of n tenth-micro-units, multiplied by FiveToSeven.
ScaledTenths(n) ==
    LimbShift(LimbTimes(Limbs(IF n < 0 THEN -n ELSE n), 2 ^ 7, 0), FractionLimbs - 1)

\* scaled / FiveToSeven, rounded.
RoundQuotient(d) == RoundToDouble(LimbTrim(d.q), d.r # 0)
DivideScaled(scaled) ==
    RoundQuotient(LimbDivide(scaled, FiveToSeven, Len(scaled), 0, NoLimbs))

\* The float of the decimal numeral of n tenth-micro-units.
FloatOfTenths(n) == [neg |-> n < 0, mag |-> DivideScaled(ScaledTenths(n))]

\* The float nearest to the signed magnitude v; a zero has no sign.
Rounded(v) == [neg |-> v.neg /\ v.mag # NoLimbs, mag |-> RoundToDouble(v.mag, FALSE)]

\* big - small of two magnitudes, with the sign of big.
Difference(big, small) ==
    [neg |-> big.neg, mag |-> LimbTrim(LimbSub(big.mag, small.mag, 0))]

\* x + y of two floats.
FloatAdd(x, y) ==
    Rounded(IF x.neg = y.neg THEN [neg |-> x.neg, mag |-> LimbAdd(x.mag, y.mag, 0)]
            ELSE IF LimbLess(x.mag, y.mag) THEN Difference(y, x)
            ELSE Difference(x, y))

\* sum(amounts), and total_spent after `total_spent += amount` for each:
\* the amounts are added from the left, starting at zero.
RECURSIVE FloatSum(_)
FloatSum(amounts) ==
    IF amounts = <<>> THEN [neg |-> FALSE, mag |-> NoLimbs]
    ELSE FloatAdd(FloatSum(SubSeq(amounts, 1, Len(amounts) - 1)),
                  FloatOfTenths(amounts[Len(amounts)]))

\* x < y of two signed magnitudes.
SignedLess(x, y) ==
    IF x.neg # y.neg THEN x.neg
    ELSE IF x.neg THEN LimbLess(y.mag, x.mag)
    ELSE LimbLess(x.mag, y.mag)

\* The sum of the numerals of the amounts.
RECURSIVE SumTenths(_)
SumTenths(amounts) ==
    IF amounts = <<>> THEN 0 ELSE Head(amounts) + SumTenths(Tail(amounts))

\* The exact value of the float f, multiplied by FiveToSeven.
ScaledFloat(f) == [neg |-> f.neg, mag |-> LimbTimes(f.mag, FiveToSeven, 0)]

\* Decimal < float, which Python decides on the exact values: the balance of
\* `tenths` tenth-micro-units against the sum of the amounts.  The sum differs
\* from the sum of the numerals by less than one tenth-micro-unit, so the
\* numerals decide unless they are equal.
DecimalLessFloatSum(tenths, amounts) ==
    IF tenths # SumTenths(amounts) THEN tenths < SumTenths(amounts)
    ELSE SignedLess([neg |-> tenths < 0, mag |-> ScaledTenths(tenths)],
                    ScaledFloat(FloatSum(amounts)))

\* float > float(Decimal): the sum of the amounts against the float of the
\* balance of `tenths` tenth-micro-units.
FloatSumAboveFloat(amounts, tenths) ==
    IF tenths # SumTenths(amounts) THEN SumTenths(amounts) > tenths
    ELSE SignedLess(FloatOfTenths(tenths), FloatSum(amounts))

\* ------------------------------------------------- blockchain.py, AccountManager
\* The account table: a function from the public keys that have a row to
\* [nonce, balance], balance in micro-units.

\* The table `account` as create_account_table makes it in a directory that
\* has no store yet.
EmptyTable == [pk \in {} |-> [nonce |-> 0, balance |-> 0]]

\* AccountManager.set_initial_balance: the INSERT of the seed row fails on a
\* table that holds the row already, the error is logged and the table stays.
SetInitialBalance(table) ==
    IF SEED \in DOMAIN table THEN table
    ELSE [pk \in DOMAIN table \cup {SEED} |->
            IF pk = SEED THEN [nonce |-> 0, balance |-> InitialMicro] ELSE table[pk]]

\* The account table of a node started in a directory that has no store yet.
InitialLedger == SetInitialBalance(EmptyTable)

HasAccount(L, pk) == pk \in DOMAIN L

\* AccountManager.get_balance for a key that has a row: micro-units / 1e6,
\* quantized to 7 places, here in tenth-micro-units.
GetBalance(L, pk) == L[pk].balance * TenthsPerMicro

\* get_balance(pk) or Decimal(0): no row and a zero balance both give 0.
GetBalanceOrZero(L, pk) == IF HasAccount(L, pk) THEN GetBalance(L, pk) ELSE 0

\* AccountManager.get_nonce for a key that has a row.
GetNonce(L, pk) == L[pk].nonce

\* int(Decimal): truncation toward zero.
TruncToMicro(tenths) ==
    IF tenths >= 0 THEN tenths \div TenthsPerMicro
    ELSE -((-tenths) \div TenthsPerMicro)

\* AccountManager.upsert_balance: INSERT ... ON CONFLICT DO UPDATE balance.
UpsertBalance(L, pk, tenths) ==
    IF HasAccount(L, pk) THEN [L EXCEPT ![pk].balance = TruncToMicro(tenths)]
    ELSE [k \in DOMAIN L \cup {pk} |->
            IF k = pk THEN [nonce |-> 0, balance |-> TruncToMicro(tenths)]
            ELSE L[k]]

\* AccountManager.increment_nonce: UPDATE ... WHERE public_key = pk.
IncrementNonce(L, pk) ==
    IF HasAccount(L, pk) THEN [L EXCEPT ![pk].nonce = L[pk].nonce + 1] ELSE L

\* ------------------------------------------------------ blockchain.py, Blockchain
\* The sum of the amounts of the transactions in exact arithmetic.
RECURSIVE SumAmounts(_)
SumAmounts(txs) ==
    IF txs = <<>> THEN 0 ELSE Head(txs).amount + SumAmounts(Tail(txs))

\* Blockchain.get_all_transactions_from_sender
GetAllTransactionsFromSender(sender, txs) ==
    SelectSeq(txs, LAMBDA t : t.sender = sender)

\* What the sender spends in txs, in exact arithmetic; the float that
\* get_all_spendings_from_transactions returns is FloatSum of these amounts.
GetAllSpendings(sender, txs) ==
    SumAmounts(GetAllTransactionsFromSender(sender, txs))

\* The float amounts of a list of transactions.
AmountsOf(txs) == [i \in 1..Len(txs) |-> txs[i].amount]

\* add_transaction, lines 37-38: `sender_balance < all_senders_spending`, the
\* Decimal balance against the float sum(...) + transaction.amount.
BalanceBelowSpending(balance, P, tx) ==
    DecimalLessFloatSum(balance,
        AmountsOf(GetAllTransactionsFromSender(tx.sender, P)) \o <<tx.amount>>)

\* apply_transactions, lines 83-99: `total_spent > sender_balance`, the float
\* total of the group against float(balance).
TotalSpentAboveBalance(sorted, balance) ==
    FloatSumAboveFloat(AmountsOf(sorted), balance)

\* add_transaction with the nonce incremented before it is compared (line 47
\* moved above line 43): a rejected transaction still advances the nonce.
AddTransactionIncrementsEarly(P, L, tx) ==
    LET L1 == IncrementNonce(L, tx.sender)
    IN  IF TxIsValid(tx) # "True"
        THEN [ret |-> TxIsValid(tx), pending |-> P, ledger |-> L]
        ELSE IF ~HasAccount(L, tx.sender) THEN [ret |-> "False", pending |-> P, ledger |-> L]
        ELSE IF BalanceBelowSpending(GetBalance(L, tx.sender), P, tx)
        THEN [ret |-> "False", pending |-> P, ledger |-> L]
        ELSE IF ~tx.has_nonce THEN [ret |-> "Raise", pending |-> P, ledger |-> L]
        ELSE IF tx.nonce # GetNonce(L, tx.sender)
        THEN [ret |-> "False", pending |-> P, ledger |-> L1]
        ELSE [ret |-> "True", pending |-> Append(P, tx), ledger |-> L1]

\* Blockchain.add_transaction: the outcome and the mempool and ledger it leaves.
AddTransaction(P, L, tx) ==
    LET unchanged(r) == [ret |-> r, pending |-> P, ledger |-> L]
    IN  IF TxIsValid(tx) # "True" THEN unchanged(TxIsValid(tx))
        ELSE IF ~HasAccount(L, tx.sender) THEN unchanged("False")
        ELSE IF BalanceBelowSpending(GetBalance(L, tx.sender), P, tx)
        THEN unchanged("False")
        ELSE IF ~tx.has_nonce THEN unchanged("Raise")
        ELSE IF tx.nonce # GetNonce(L, tx.sender) THEN unchanged("False")
        ELSE [ret |-> "True", pending |-> Append(P, tx),
              ledger |-> IncrementNonce(L, tx.sender)]

\* list.sort(key = nonce), a stable sort.
RECURSIVE InsertByNonce(_, _)
InsertByNonce(sorted, tx) ==
    IF sorted = <<>> THEN <<tx>>
    ELSE IF tx.nonce < Head(sorted).nonce THEN <<tx>> \o sorted
    ELSE <<Head(sorted)>> \o InsertByNonce(Tail(sorted), tx)

RECURSIVE SortByNonce(_)
SortByNonce(txs) ==
    IF txs = <<>> THEN <<>>
    ELSE InsertByNonce(SortByNonce(SubSeq(txs, 1, Len(txs) - 1)), txs[Len(txs)])

\* The keys of transactions_by_sender, in insertion order.
RECURSIVE SendersInOrder(_, _)
SendersInOrder(txs, seen) ==
    IF txs = <<>> THEN <<>>
    ELSE IF Head(txs).sender = COINBASE \/ Head(txs).sender \in seen
         THEN SendersInOrder(Tail(txs), seen)
    ELSE <<Head(txs).sender>> \o
            SendersInOrder(Tail(txs), seen \cup {Head(txs).sender})

CoinbaseTransactions(txs) == SelectSeq(txs, LAMBDA t : t.sender = COINBASE)

\* Lines 103-113 for one transaction: debit the sender, increment its nonce,
\* credit the receiver.
ApplyTransfer(L, tx) ==
    LET L1 == UpsertBalance(L, tx.sender, GetBalance(L, tx.sender) - tx.amount)
        L2 == IncrementNonce(L1, tx.sender)
    IN  UpsertBalance(L2, tx.receiver, GetBalanceOrZero(L2, tx.receiver) + tx.amount)

RECURSIVE ApplyTransfers(_, _)
ApplyTransfers(L, txs) ==
    IF txs = <<>> THEN L
    ELSE ApplyTransfers(ApplyTransfer(L, Head(txs)), Tail(txs))

\* apply_transactions without the comparison of lines 91-94: the nonces of a
\* group are not looked at.
ApplySenderGroupAnyNonce(L, sender, group) ==
    IF \E i \in 1..Len(group) : ~group[i].has_nonce
    THEN [ret |-> "Raise", ledger |-> L]
    ELSE IF ~HasAccount(L, sender) THEN [ret |-> "Raise", ledger |-> L]
    ELSE LET sorted == SortByNonce(group)
         IN  IF TotalSpentAboveBalance(sorted, GetBalance(L, sender))
             THEN [ret |-> "False", ledger |-> L]
             ELSE [ret |-> "True", ledger |-> ApplyTransfers(L, sorted)]

\* Lines 80-113 for one sender: the checks, then the transfers.
ApplySenderGroup(L, sender, group) ==
    IF \E i \in 1..Len(group) : ~group[i].has_nonce
    THEN [ret |-> "Raise", ledger |-> L]
    ELSE IF ~HasAccount(L, sender) THEN [ret |-> "Raise", ledger |-> L]
    ELSE LET sorted == SortByNonce(group)
             start == GetNonce(L, sender) - Len(group)
         IN  IF \E i \in 1..Len(sorted) : sorted[i].nonce # start + i - 1
             THEN [ret |-> "False", ledger |-> L]
             ELSE IF TotalSpentAboveBalance(sorted, GetBalance(L, sender))
             THEN [ret |-> "False", ledger |-> L]
             ELSE [ret |-> "True", ledger |-> ApplyTransfers(L, sorted)]

\* The loop of line 80 over the senders: a group that fails ends the method
\* with the ledger as the groups before it left it.
RECURSIVE ApplyGroups(_, _, _)
ApplyGroups(L, senders, txs) ==
    IF senders = <<>> THEN [ret |-> "True", ledger |-> L]
    ELSE LET r == ApplySenderGroup(L, Head(senders),
                     GetAllTransactionsFromSender(Head(senders), txs))
         IN  IF r.ret # "True" THEN r
             ELSE ApplyGroups(r.ledger, Tail(senders), txs)

\* Lines 115-121: the count is logged, then element 0 is read and credited.
CreditCoinbase(L, coinbases) ==
    IF coinbases = <<>> THEN [ret |-> "Raise", ledger |-> L]
    ELSE [ret |-> "True",
          ledger |-> UpsertBalance(L, coinbases[1].receiver,
                        GetBalanceOrZero(L, coinbases[1].receiver)
                            + Reward * TenthsPerCoin)]

\* Blockchain.apply_transactions
ApplyTransactions(L, txs) ==
    LET r == ApplyGroups(L, SendersInOrder(txs, {}), txs)
    IN  IF r.ret # "True" THEN r
        ELSE CreditCoinbase(r.ledger, CoinbaseTransactions(txs))

\* The filter of line 63 written as `tx not in block.transactions`: a pending
\* transaction leaves only when the block holds that very transaction.
RemoveIncludedObjects(P, block) ==
    SelectSeq(P, LAMBDA t :
        \A i \in 1..Len(block.transactions) : block.transactions[i] # t)

\* Lines 62-63: the transactions of the block leave the mempool.
RemoveIncluded(P, block) ==
    SelectSeq(P, LAMBDA t :
        \A i \in 1..Len(block.transactions) : block.transactions[i].tx_hash # t.tx_hash)

\* Blockchain.get_last_block
GetLastBlock(C) == C[Len(C)]

\* Blockchain.add_block: the outcome and the chain, mempool and ledger it leaves.
AddBlock(C, P, L, block) ==
    IF BlockIsValid(block, Difficulty, GetLastBlock(C)) # "True"
    THEN [ret |-> BlockIsValid(block, Difficulty, GetLastBlock(C)),
          chain |-> C, pending |-> P, ledger |-> L]
    ELSE LET r == ApplyTransactions(L, block.transactions)
         IN  IF r.ret # "True"
             THEN [ret |-> r.ret, chain |-> C, pending |-> P, ledger |-> r.ledger]
             ELSE [ret |-> "True", chain |-> Append(C, block),
                   pending |-> RemoveIncluded(P, block), ledger |-> r.ledger]

\* Blockchain.is_valid
BlockchainIsValid(C) ==
    LET bad == {i \in 2..Len(C) :
                   \/ C[i].previous_hash # C[i - 1].hash
                   \/ BlockIsValid(C[i], Difficulty, C[i - 1]) # "True"}
        first == CHOOSE i \in bad : \A j \in bad : i <= j
    IN  IF bad = {} THEN "True"
        ELSE IF C[first].previous_hash # C[first - 1].hash THEN "False"
        ELSE BlockIsValid(C[first], Difficulty, C[first - 1])

\* The orders the hex digests of the transactions of a list can have: the
\* digest is a SHA-256 value of the keys and the amount, so which digest
\* compares lower depends on the keys in use.  An order is a rank of the
\* digests of the list, 1 for the lowest.  Each sort is given one of them:
\* two sorts of one behaviour are not held to the same order, which is more
\* than one set of keys allows.
DigestOrders(txs) ==
    LET digests == {txs[i].tx_hash : i \in 1..Len(txs)}
    IN  {rank \in [digests -> 1..Cardinality(digests)] :
            \A g, h \in digests : g # h => rank[g] # rank[h]}

\* sorted(pending_transactions, key = tx_hash), a stable sort, with the
\* digests in the order `rank`.
RECURSIVE InsertByHash(_, _, _)
InsertByHash(sorted, tx, rank) ==
    IF sorted = <<>> THEN <<tx>>
    ELSE IF rank[tx.tx_hash] < rank[Head(sorted).tx_hash] THEN <<tx>> \o sorted
    ELSE <<Head(sorted)>> \o InsertByHash(Tail(sorted), tx, rank)

RECURSIVE SortByHash(_, _)
SortByHash(txs, rank) ==
    IF txs = <<>> THEN <<>>
    ELSE InsertByHash(SortByHash(SubSeq(txs, 1, Len(txs) - 1), rank),
                      txs[Len(txs)], rank)

\* Lines 132-142: the candidate block of mine_pending_transactions, mined.
AssembleBlock(C, P, miner, timestamp, rank) ==
    LET reward == NewTransaction(miner, Reward * TenthsPerCoin, "", TRUE)
    IN  MineBlock(NewBlock(Len(C), GetLastBlock(C).hash,
                           <<reward>> \o SortByHash(P, rank), timestamp,
                           NoCounter),
                  Difficulty)

\* ------------------------------------------------------ node.py, PeerManager
\* The table `node`: a function from the addresses that have a row to
\* is_offline.  An address (ip, port) is a number; Self is the address
\* [self.host, self.port] of the node that owns the table.
Self == 0
NoAddr == -1
NoMax == -1
Client == -2
Genesis == -3

\* PeerManager.get_rows
GetRows(R) == Cardinality(DOMAIN R)

\* INSERT OR IGNORE INTO node (ip, port): is_offline defaults to FALSE.
InsertOrIgnore(R, peer_addr) ==
    IF peer_addr \in DOMAIN R THEN R
    ELSE [a \in DOMAIN R \cup {peer_addr} |-> IF a = peer_addr THEN FALSE ELSE R[a]]

\* The test of line 449: add_peer returns without inserting.
AddPeerRefuses(R, max_peers) == max_peers # NoMax /\ GetRows(R) > max_peers

\* PeerManager.add_peer
AddPeer(R, peer_addr, max_peers) ==
    IF AddPeerRefuses(R, max_peers) THEN R ELSE InsertOrIgnore(R, peer_addr)

\* PeerManager.remove_peer
RemovePeer(R, peer) == [a \in DOMAIN R \ {peer} |-> R[a]]

\* PeerManager.set_online and set_offline: UPDATE ... WHERE ip = ? AND port = ?.
SetOnline(R, peer_addr) ==
    IF peer_addr \in DOMAIN R THEN [R EXCEPT ![peer_addr] = FALSE] ELSE R
SetOffline(R, peer_addr) ==
    IF peer_addr \in DOMAIN R THEN [R EXCEPT ![peer_addr] = TRUE] ELSE R

\* PeerManager.get_all_peers: every row, offline or not.
GetAllPeers(R) == DOMAIN R

\* The rows the query of get_peers selects from: online and not user_addr.
\* user_addr None is the pair ("", 0), the address of no peer (NoAddr).
Candidates(R, user_addr) == {a \in DOMAIN R : a # user_addr /\ ~R[a]}

\* get_peers with the WHERE clause reduced to `is_offline = FALSE`: user_addr
\* is not excluded.
GetPeersWithoutExclusion(R, count, user_addr) ==
    LET cand == {a \in DOMAIN R : ~R[a]}
    IN  IF Cardinality(cand) <= count THEN {cand}
        ELSE {S \in SUBSET cand : Cardinality(S) = count}

\* PeerManager.get_peers: ORDER BY RANDOM() LIMIT count gives any `count` of
\* the candidates, all of them when there are fewer.
GetPeers(R, count, user_addr) ==
    LET cand == Candidates(R, user_addr)
    IN  IF Cardinality(cand) <= count THEN {cand}
        ELSE {S \in SUBSET cand : Cardinality(S) = count}

\* ------------------------------------------------------------ node.py, Node
GOSSIP_COUNT == 2
GossipListSize == 2

\* One dial of the operation under way: the address dialed, the message
\* written (its type and its fields address and peers, where the type has
\* them) and whether the dial and the write succeeded.
Message(to, type, address, peers, delivered) ==
    [to |-> to, type |-> type, address |-> address, peers |-> peers,
     delivered |-> delivered]

\* client.sendall on the accepted connection.
Reply(type) == Message(Client, type, NoAddr, {}, TRUE)
HealthyResponse == "health_check_response"

\* The orders in which a list query can return the rows S.
Orders(S) ==
    {f \in [1..Cardinality(S) -> S] :
        \A i, j \in 1..Cardinality(S) : i # j => f[i] # f[j]}

\* `for peer_addr in ...: add_peer(peer_addr, max_peers)`
RECURSIVE AddPeers(_, _, _)
AddPeers(R, addrs, max_peers) ==
    IF addrs = <<>> THEN R
    ELSE AddPeers(AddPeer(R, Head(addrs), max_peers), Tail(addrs), max_peers)

\* How the check of one peer can end: a healthy answer, an answer that is
\* JSON but not healthy, an answer that is not JSON (an empty one included),
\* no answer within the timeout, no connection.
Outcomes == {"healthy", "nonhealthy", "unparsable", "timeout", "refused"}

\* The exceptions `except (socket.timeout, ConnectionRefusedError, OSError)`
\* does not catch: json.loads failing and Exception("No response from peer").
Escapes(outcome) == outcome \in {"nonhealthy", "unparsable"}

\* The registry after the check of one peer, on a Node (remove_peer) and on
\* the bootstrap directory (set_online, set_offline).
HealthOutcome(R, role, peer, outcome) ==
    CASE outcome = "healthy" ->
            IF role = "bootstrap" THEN SetOnline(R, peer) ELSE R
      [] outcome \in {"timeout", "refused"} ->
            IF role = "bootstrap" THEN SetOffline(R, peer) ELSE RemovePeer(R, peer)
      [] OTHER -> R

\* A call of Node.broadcast under way: its position, the type of the
\* message, the rows get_all_peers returned, the rows not yet dialed, the
\* peers whose dial failed and whose remove_peer is still to come, the peers
\* it has removed, and the dials made.
NoBroadcast ==
    [pc |-> "idle", type |-> "", peers |-> {}, todo |-> {}, failed |-> {},
     removed |-> {}, sent |-> {}]

\* broadcast(message) is entered.
CallBroadcast(type) == [NoBroadcast EXCEPT !.pc = "call", !.type = type]

\* Lines 263-265: the rows are read and one send_message_to_peer is
\* submitted for each.  ThreadPoolExecutor(max_workers = 0) raises
\* ValueError.
SubmitDials(b, R) ==
    IF GetAllPeers(R) = {} THEN [b EXCEPT !.pc = "raise"]
    ELSE [b EXCEPT !.pc = "dial", !.peers = GetAllPeers(R), !.todo = GetAllPeers(R)]

\* send_message_to_peer whose except branch only logs.
SendMessageToPeerOnlyLogs(b, peer, ok) ==
    [b EXCEPT !.todo = @ \ {peer},
              !.sent = @ \cup {Message(peer, b.type, Self, {}, ok)}]

\* send_message_to_peer, lines 251-260, in a thread of the pool: the peer is
\* dialed and the message written, or that fails and remove_peer is next.
SendMessageToPeer(b, peer, ok) ==
    [b EXCEPT !.todo = @ \ {peer},
              !.failed = IF ok THEN @ ELSE @ \cup {peer},
              !.sent = @ \cup {Message(peer, b.type, Self, {}, ok)}]

\* Transaction.to_dict: the six fields that go on the wire.  A nonce set on
\* the object is not among them.
TransactionToDict(tx) ==
    [sender |-> tx.sender, receiver |-> tx.receiver, amount |-> tx.amount,
     is_coinbase |-> tx.is_coinbase, signature |-> tx.signature,
     tx_hash |-> tx.tx_hash]

\* Transaction(**d), and the constructor call of lines 208-215: the hash of
\* the message is kept, the object has no attribute nonce.
TransactionFromDict(d) ==
    [is_coinbase |-> d.is_coinbase,
     sender |-> IF d.is_coinbase THEN COINBASE ELSE d.sender,
     receiver |-> d.receiver, amount |-> d.amount, signature |-> d.signature,
     tx_hash |-> d.tx_hash, has_nonce |-> FALSE, nonce |-> 0]

\* Block.to_dict
BlockToDict(b) ==
    [index |-> b.index, previous_hash |-> b.previous_hash,
     transactions |-> [i \in 1..Len(b.transactions) |->
                          TransactionToDict(b.transactions[i])],
     nonce |-> b.nonce, timestamp |-> b.timestamp, hash |-> b.hash]

\* The Block built from block_data, lines 190-196: the hash of the message
\* is not passed on, the constructor computes it.
BlockFromDict(d) ==
    NewBlock(d.index, d.previous_hash,
             [i \in 1..Len(d.transactions) |-> TransactionFromDict(d.transactions[i])],
             d.timestamp, d.nonce)

\* ------------------------------------------------------------------- inputs
\* Amounts, in tenth-micro-units: 6.0000005 coins and -6 coins.
Amounts == {6 * TenthsPerCoin + TenthsPerMicro \div 2, -6 * TenthsPerCoin}

OtherKey(k) == IF k = SEED THEN K2 ELSE SEED

\* A transfer built by the constructor and signed by its sender.
SignedTransfer(sender, amount) ==
    SignTransaction(NewTransaction(OtherKey(sender), amount, sender, FALSE), sender)

\* The transfers handed to add_transaction and carried by received blocks:
\* as the constructor builds them (no nonce attribute) or with a nonce set,
\* signed by the sender or not signed.
NoncedTransfers ==
    {WithNonce(SignedTransfer(SEED, a), n) : a \in Amounts, n \in 0..MaxNonce}
        \cup {WithNonce(SignedTransfer(K2, 6 * TenthsPerCoin), 0)}
TxUniverse ==
    NoncedTransfers
        \cup {SignedTransfer(SEED, a) : a \in Amounts}
        \cup {WithNonce(NewTransaction(K2, 6 * TenthsPerCoin, SEED, FALSE), 0)}

CoinbaseTo(receiver) == NewTransaction(receiver, Reward * TenthsPerCoin, "", TRUE)

\* The coinbase transactions of a received block: none, one or two.
CoinbaseLists == {<<>>, <<CoinbaseTo(MINER)>>, <<CoinbaseTo(MINER), CoinbaseTo(K2)>>}

\* The transfers of a received block: none, one, or two that have different
\* senders or the same amount.
TransferLists ==
    {<<>>} \cup {<<t>> : t \in TxUniverse}
           \cup {p \in NoncedTransfers \X NoncedTransfers :
                    p[1].sender # p[2].sender \/ p[1].amount = p[2].amount}

\* The blocks handed to add_block.  Built on the tip and mined: one coinbase
\* and every list of transfers, or no or two coinbases and at most one
\* transfer.  With one coinbase and a flaw: built on another block, not
\* mined, or with a hash that is not the hash of the block.
ReceivedBlocks(C) ==
    LET tip == GetLastBlock(C)
        onTip(txs, zeros) == MinedBlock(Len(C), tip.hash, txs, 1, zeros)
        good == onTip(<<CoinbaseTo(MINER)>>, Difficulty)
    IN  {onTip(<<CoinbaseTo(MINER)>> \o txs, Difficulty) : txs \in TransferLists}
        \cup {onTip(cbs \o txs, Difficulty) : cbs \in CoinbaseLists,
                 txs \in {<<>>} \cup {<<t>> : t \in TxUniverse}}
        \cup {MinedBlock(Len(C), tip.previous_hash, <<CoinbaseTo(MINER)>>, 1, Difficulty),
              onTip(<<CoinbaseTo(MINER)>>, Difficulty - 1),
              [good EXCEPT !.hash = onTip(<<>>, Difficulty).hash]}

\* The blocks a handler thread receives while other threads run: one
\* coinbase paying another miner, built on the tip or on the block before it.
ReceivedBlocksConc(C) ==
    LET tip == GetLastBlock(C)
    IN  {MinedBlock(Len(C), tip.hash, <<CoinbaseTo(K2)>>, 1, Difficulty),
         MinedBlock(Len(C), tip.previous_hash, <<CoinbaseTo(K2)>>, 1, Difficulty)}

\* The store outlives the process, the chain and the mempool do not: the
\* table a Blockchain finds when it is constructed is empty, or it is what an
\* earlier run in the same directory left, here a run that accepted one
\* block of a coinbase and a run that admitted one transfer.
StoredTables ==
    {EmptyTable,
     AddBlock(<<CreateGenesis>>, <<>>, InitialLedger,
              MinedBlock(1, GenesisHash, <<CoinbaseTo(MINER)>>, 1, Difficulty)).ledger,
     AddTransaction(<<>>, InitialLedger,
                    WithNonce(SignedTransfer(SEED, -6 * TenthsPerCoin), 0)).ledger}

\* ------------------------------------------------------------ state machine
VARIABLES
    chain,      \* Blockchain.chain
    pending,    \* Blockchain.pending_transactions
    ledger,     \* the account table of AccountManager
    last,       \* the call that has just returned: its name, argument, outcome
    accepted,   \* per sender, the nonce of the transaction add_transaction accepted last
    threads,    \* per thread inside a method of Blockchain: its position and its locals
    registry,   \* the table `node` of PeerManager: per address, is_offline
    workers,    \* per handle_client thread inside add_peer: position and locals
    loops,      \* per background loop of the node: its position and its locals
    sent,       \* what the operation under way has put on the network
    conn,       \* one accepted connection: bytes to come, buffer, dispatched payloads
    replicas    \* the Blockchain of every node of a network of nodes

netvars == <<registry, workers, loops, sent, conn, replicas>>
vars == <<chain, pending, ledger, last, accepted, threads, netvars>>

\* The mining thread of Node.start_extra_threads and two handle_client
\* threads, one per accepted connection.
Handlers == {"handler1", "handler2"}
Threads == {"mining"} \cup Handlers
NoTx == NewTransaction("", 0, "", FALSE)
Idle ==
    [pc |-> "idle", tx |-> NoTx, block |-> CreateGenesis, filtered |-> <<>>,
     todo |-> <<>>, reg |-> 0]
NoCall == [op |-> "none", tx |-> NoTx, block |-> CreateGenesis, ret |-> "", ret2 |-> ""]
Call(op, tx, block, ret, ret2) ==
    [op |-> op, tx |-> tx, block |-> block, ret |-> ret, ret2 |-> ret2]

\* PeerManager.__init__ on a database that has no table `node` yet, no
\* connection accepted, no loop under way.
NoPeers == [a \in {} |-> FALSE]
WorkerIdle ==
    [pc |-> "idle", todo |-> <<>>, max_peers |-> NoMax, reply |-> FALSE,
     address |-> NoAddr]
NoCheck == [peer |-> NoAddr, outcome |-> "none"]
HealthIdle ==
    [pc |-> "sleep", role |-> "node", todo |-> {}, checked |-> NoCheck]
GossipIdle == [pc |-> "sleep", todo |-> <<>>]
LoopsIdle ==
    [health |-> HealthIdle, gossip |-> GossipIdle, mining |-> "running",
     broadcast |-> NoBroadcast]
ConnIdle ==
    [open |-> FALSE, frames |-> <<>>, partial |-> <<>>, reads |-> <<>>,
     buffer |-> <<>>, dispatched |-> <<>>]
NetIdle ==
    /\ registry = NoPeers
    /\ workers = [t \in Handlers |-> WorkerIdle]
    /\ loops = LoopsIdle
    /\ sent = {}
    /\ conn = ConnIdle
    /\ replicas = <<>>

\* Blockchain.__init__ in a directory that has no store yet, no call made.
CoreIdle ==
    /\ chain = <<CreateGenesis>>
    /\ pending = <<>>
    /\ ledger = InitialLedger
    /\ last = NoCall
    /\ accepted = [k \in {SEED, K2} |-> [has |-> FALSE, nonce |-> 0]]
    /\ threads = [t \in Threads |-> Idle]

\* Blockchain.__init__: the chain and the mempool are new, the account table
\* is the one the store holds, with the seed row added when it is missing.
Init ==
    /\ chain = <<CreateGenesis>>
    /\ pending = <<>>
    /\ ledger \in {SetInitialBalance(table) : table \in StoredTables}
    /\ last = NoCall
    /\ accepted = [k \in {SEED, K2} |-> [has |-> FALSE, nonce |-> 0]]
    /\ threads = [t \in Threads |-> Idle]
    /\ NetIdle

Accept(tx) == [accepted EXCEPT ![tx.sender] = [has |-> TRUE, nonce |-> tx.nonce]]

\* One call of Blockchain.add_transaction.
DoAddTransaction ==
    /\ last.op = "none"
    /\ \E tx \in TxUniverse :
         LET r == AddTransaction(pending, ledger, tx)
         IN  /\ r.ret = "True" => Len(pending) < MaxPending
             /\ pending' = r.pending
             /\ ledger' = r.ledger
             /\ last' = Call("add_transaction", tx, CreateGenesis, r.ret, "")
             /\ accepted' = IF r.ret = "True" THEN Accept(tx) ELSE accepted
             /\ UNCHANGED <<netvars, chain, threads>>

\* Two calls of Blockchain.add_transaction with the same transaction, one
\* after the other.
DoAddTransactionTwice ==
    /\ last.op = "none"
    /\ \E tx \in TxUniverse :
         LET r1 == AddTransaction(pending, ledger, tx)
             r2 == AddTransaction(r1.pending, r1.ledger, tx)
         IN  /\ Len(r2.pending) <= MaxPending
             /\ pending' = r2.pending
             /\ ledger' = r2.ledger
             /\ last' = Call("add_transaction_twice", tx, CreateGenesis, r1.ret, r2.ret)
             /\ accepted' = IF r1.ret = "True" \/ r2.ret = "True" THEN Accept(tx)
                            ELSE accepted
             /\ UNCHANGED <<netvars, chain, threads>>

\* One call of Blockchain.add_block.
DoAddBlock ==
    /\ last.op = "none"
    /\ \E block \in ReceivedBlocks(chain) :
         LET r == AddBlock(chain, pending, ledger, block)
         IN  /\ r.ret = "True" => Len(chain) < MaxChain
             /\ chain' = r.chain
             /\ pending' = r.pending
             /\ ledger' = r.ledger
             /\ last' = Call("add_block", NoTx, block, r.ret, "")
             /\ UNCHANGED <<netvars, accepted, threads>>

\* mine_pending_transactions, lines 134-135: the mining thread finds three
\* transactions pending and leaves its wait.  Other threads run before it
\* reads the mempool again.
DoMineLeaveWait ==
    /\ last.op = "none"
    /\ loops.mining = "running"
    /\ threads["mining"].pc = "idle"
    /\ Len(pending) >= MinPendingToMine
    /\ Len(chain) < MaxChain
    /\ threads' = [threads EXCEPT !["mining"].pc = "sort"]
    /\ UNCHANGED <<netvars, chain, pending, ledger, last, accepted>>

\* mine_pending_transactions, lines 136-149, after the wait: the mempool as
\* it is now is sorted, the candidate built and mined and handed to
\* add_block.
DoMine ==
    /\ last.op = "none"
    /\ threads["mining"].pc = "sort"
    /\ threads' = [threads EXCEPT !["mining"].pc = "idle"]
    /\ \E rank \in DigestOrders(pending) :
       LET block == AssembleBlock(chain, pending, MINER, 1, rank)
           r == AddBlock(chain, pending, ledger, block)
       IN  /\ chain' = r.chain
           /\ pending' = r.pending
           /\ ledger' = r.ledger
           /\ last' = Call("mine_pending_transactions", NoTx, block,
                           IF r.ret = "True" THEN "Block" ELSE
                           IF r.ret = "False" THEN "None" ELSE "Raise", "")
           /\ UNCHANGED <<netvars, accepted>>

\* The caller has read the outcome.
Return ==
    /\ last.op # "none"
    /\ loops.broadcast.pc = "idle"
    /\ last' = NoCall
    /\ UNCHANGED <<netvars, chain, pending, ledger, accepted, threads>>

Next ==
    \/ DoAddTransaction
    \/ DoAddTransactionTwice
    \/ DoAddBlock
    \/ DoMineLeaveWait
    \/ DoMine
    \/ Return

Spec == Init /\ [][Next]_vars

\* ------------------------------------------------- the threads of a Node
\* No lock guards chain, pending_transactions or the account table, and every
\* method of AccountManager opens a connection of its own: a thread inside
\* add_transaction, mine_pending_transactions or add_block can be overtaken
\* between any two statements that read or write one of the three.  A step
\* below is one such read or write with the local computation that follows.

\* The threads inside add_block or on their way to it.
InFlight ==
    Cardinality({t \in Threads :
        threads[t].pc \in {"sort", "index", "previous_hash", "validate", "apply",
                           "filter", "store", "append"}})

\* The threads inside add_transaction.
Admitting ==
    Cardinality({t \in Threads :
        threads[t].pc \in {"spendings", "get_nonce", "increment_nonce", "append_tx"}})

\* apply_transactions as the sequence of its statements that read or write
\* the account table, when none of them ends the method: lines 82-83 and
\* 103-113 for each sender in the order of transactions_by_sender, then
\* lines 117-120.  A statement is its name, the transaction it is about and
\* the transactions of the sender (or the coinbase transactions) it is about.
ApplyStatements(txs) ==
    LET statement(op, tx, group) == [op |-> op, tx |-> tx, group |-> group]
        RECURSIVE transfers(_)
        transfers(sorted) ==
            IF sorted = <<>> THEN <<>>
            ELSE <<statement("get_sender_balance", Head(sorted), <<>>),
                   statement("upsert_sender", Head(sorted), <<>>),
                   statement("increment_nonce", Head(sorted), <<>>),
                   statement("get_receiver_balance", Head(sorted), <<>>),
                   statement("upsert_receiver", Head(sorted), <<>>)>>
                 \o transfers(Tail(sorted))
        RECURSIVE groups(_)
        groups(senders) ==
            IF senders = <<>> THEN <<>>
            ELSE LET group == GetAllTransactionsFromSender(Head(senders), txs)
                 IN  <<statement("get_nonce", NoTx, group),
                       statement("get_balance", NoTx, group)>>
                     \o transfers(SortByNonce(group))
                     \o groups(Tail(senders))
    IN  groups(SendersInOrder(txs, {}))
            \o <<statement("get_coinbase_balance", NoTx, CoinbaseTransactions(txs)),
                 statement("upsert_coinbase", NoTx, CoinbaseTransactions(txs))>>

\* One statement of apply_transactions on the table L, `reg` being the value
\* the statement before it has read: the outcome ("True" to go on), the
\* table and the value read.
ApplyStatement(L, reg, s) ==
    LET go(L1, v) == [ret |-> "True", ledger |-> L1, reg |-> v]
        stop(r) == [ret |-> r, ledger |-> L, reg |-> reg]
    IN  CASE s.op = "get_nonce" ->
               IF \E i \in 1..Len(s.group) : ~s.group[i].has_nonce THEN stop("Raise")
               ELSE IF ~HasAccount(L, s.group[1].sender) THEN stop("Raise")
               ELSE go(L, GetNonce(L, s.group[1].sender) - Len(s.group))
          [] s.op = "get_balance" ->
               LET sorted == SortByNonce(s.group)
               IN  IF ~HasAccount(L, s.group[1].sender) THEN stop("Raise")
                   ELSE IF \E i \in 1..Len(sorted) : sorted[i].nonce # reg + i - 1
                   THEN stop("False")
                   ELSE IF TotalSpentAboveBalance(sorted, GetBalance(L, s.group[1].sender))
                   THEN stop("False")
                   ELSE go(L, reg)
          [] s.op = "get_sender_balance" ->
               IF ~HasAccount(L, s.tx.sender) THEN stop("Raise")
               ELSE go(L, GetBalance(L, s.tx.sender))
          [] s.op = "upsert_sender" ->
               go(UpsertBalance(L, s.tx.sender, reg - s.tx.amount), reg)
          [] s.op = "increment_nonce" ->
               go(IncrementNonce(L, s.tx.sender), reg)
          [] s.op = "get_receiver_balance" ->
               go(L, GetBalanceOrZero(L, s.tx.receiver))
          [] s.op = "upsert_receiver" ->
               go(UpsertBalance(L, s.tx.receiver, reg + s.tx.amount), reg)
          [] s.op = "get_coinbase_balance" ->
               IF s.group = <<>> THEN stop("Raise")
               ELSE go(L, GetBalanceOrZero(L, s.group[1].receiver))
          [] s.op = "upsert_coinbase" ->
               go(UpsertBalance(L, s.group[1].receiver, reg + Reward * TenthsPerCoin), reg)

\* add_transaction, lines 33-36, called by a handler thread: the transaction
\* is validated and the balance of its sender read.  A transaction that is
\* not valid or whose sender has no account is refused without a trace.  The
\* transaction comes as process_message and the user command build it,
\* without the attribute nonce, or with a nonce set by the caller.
ThreadTransactions ==
    {WithNonce(SignedTransfer(SEED, -6 * TenthsPerCoin), n) : n \in 0..MaxNonce}
        \cup {SignedTransfer(SEED, -6 * TenthsPerCoin)}

AddTransactionGetBalance(t) ==
    /\ threads[t].pc = "idle"
    /\ Len(pending) + Admitting < MaxPending
    /\ \E tx \in ThreadTransactions :
         /\ TxIsValid(tx) = "True"
         /\ HasAccount(ledger, tx.sender)
         /\ threads' = [threads EXCEPT ![t].pc = "spendings", ![t].tx = tx,
                                       ![t].reg = GetBalance(ledger, tx.sender)]
    /\ UNCHANGED <<netvars, chain, pending, ledger, last, accepted>>

\* add_transaction, lines 37-40: the mempool is read.
AddTransactionSpendings(t) ==
    /\ threads[t].pc = "spendings"
    /\ LET tx == threads[t].tx
       IN  threads' = [threads EXCEPT ![t] =
                          IF BalanceBelowSpending(threads[t].reg, pending, tx)
                          THEN Idle ELSE [@ EXCEPT !.pc = "get_nonce"]]
    /\ UNCHANGED <<netvars, chain, pending, ledger, last, accepted>>

\* add_transaction, lines 43-45: the nonce of the sender is read and compared
\* with the attribute nonce, which raises when the transaction has none.
AddTransactionGetNonce(t) ==
    /\ threads[t].pc = "get_nonce"
    /\ LET tx == threads[t].tx
       IN  threads' = [threads EXCEPT ![t] =
                          IF tx.has_nonce /\ tx.nonce = GetNonce(ledger, tx.sender)
                          THEN [@ EXCEPT !.pc = "increment_nonce"] ELSE Idle]
    /\ UNCHANGED <<netvars, chain, pending, ledger, last, accepted>>

\* add_transaction, line 47.
AddTransactionIncrementNonce(t) ==
    /\ threads[t].pc = "increment_nonce"
    /\ ledger' = IncrementNonce(ledger, threads[t].tx.sender)
    /\ threads' = [threads EXCEPT ![t].pc = "append_tx"]
    /\ UNCHANGED <<netvars, chain, pending, last, accepted>>

\* add_transaction, lines 49-50.
AddTransactionAppend(t) ==
    /\ threads[t].pc = "append_tx"
    /\ pending' = Append(pending, threads[t].tx)
    /\ accepted' = Accept(threads[t].tx)
    /\ threads' = [threads EXCEPT ![t] = Idle]
    /\ UNCHANGED <<netvars, chain, ledger, last>>

\* handle_client, new_block_mined: a handler thread enters add_block.
HandlerReceiveBlock(t) ==
    /\ threads[t].pc = "idle"
    /\ Len(chain) + InFlight < MaxChainConc
    /\ \E block \in ReceivedBlocksConc(chain) :
         threads' = [threads EXCEPT ![t].pc = "validate", ![t].block = block]
    /\ UNCHANGED <<netvars, chain, pending, ledger, last, accepted>>

\* mine_pending_transactions, lines 134-135: the mining thread finds three
\* transactions pending and leaves its wait.
MinerLeaveWait ==
    /\ threads["mining"].pc = "idle"
    /\ Len(pending) >= MinPendingToMine
    /\ Len(chain) + InFlight < MaxChainConc
    /\ threads' = [threads EXCEPT !["mining"].pc = "sort"]
    /\ UNCHANGED <<netvars, chain, pending, ledger, last, accepted>>

\* mine_pending_transactions, lines 138-139: the mempool is read again and
\* sorted, the reward put in front.
MinerSort ==
    /\ threads["mining"].pc = "sort"
    /\ \E rank \in DigestOrders(pending) :
         threads' = [threads EXCEPT
                        !["mining"].pc = "index",
                        !["mining"].filtered =
                            <<CoinbaseTo(MINER)>> \o SortByHash(pending, rank)]
    /\ UNCHANGED <<netvars, chain, pending, ledger, last, accepted>>

\* mine_pending_transactions, line 141: len(self.chain), the first argument
\* of the constructor.
MinerIndex ==
    /\ threads["mining"].pc = "index"
    /\ threads' = [threads EXCEPT !["mining"].pc = "previous_hash",
                                  !["mining"].reg = Len(chain)]
    /\ UNCHANGED <<netvars, chain, pending, ledger, last, accepted>>

\* mine_pending_transactions, lines 141-144: get_last_block().hash, the second
\* argument; the candidate is built and mined and add_block entered.
MinerPreviousHash ==
    /\ threads["mining"].pc = "previous_hash"
    /\ LET m == threads["mining"]
       IN  threads' = [threads EXCEPT !["mining"] =
                          [Idle EXCEPT
                              !.pc = "validate",
                              !.block = MineBlock(NewBlock(m.reg, GetLastBlock(chain).hash,
                                                           m.filtered, 1, NoCounter),
                                                  Difficulty)]]
    /\ UNCHANGED <<netvars, chain, pending, ledger, last, accepted>>

\* add_block, lines 53-55.
Validate(t) ==
    /\ threads[t].pc = "validate"
    /\ threads' = [threads EXCEPT ![t] =
                      IF BlockIsValid(threads[t].block, Difficulty, GetLastBlock(chain)) = "True"
                      THEN [@ EXCEPT !.pc = "apply",
                                     !.todo = ApplyStatements(threads[t].block.transactions)]
                      ELSE Idle]
    /\ UNCHANGED <<netvars, chain, pending, ledger, last, accepted>>

\* add_block, lines 58-60: the next statement of apply_transactions that reads
\* or writes the account table.
Apply(t) ==
    /\ threads[t].pc = "apply"
    /\ LET r == ApplyStatement(ledger, threads[t].reg, Head(threads[t].todo))
           rest == Tail(threads[t].todo)
       IN  /\ ledger' = r.ledger
           /\ threads' = [threads EXCEPT ![t] =
                             IF r.ret # "True" THEN Idle
                             ELSE IF rest = <<>>
                             THEN [@ EXCEPT !.pc = "filter", !.todo = <<>>, !.reg = 0]
                             ELSE [@ EXCEPT !.todo = rest, !.reg = r.reg]]
    /\ UNCHANGED <<netvars, chain, pending, last, accepted>>

\* add_block, lines 62-63: the new list is built from the mempool as read.
Filter(t) ==
    /\ threads[t].pc = "filter"
    /\ threads' = [threads EXCEPT ![t].pc = "store",
                                  ![t].filtered = RemoveIncluded(pending, threads[t].block)]
    /\ UNCHANGED <<netvars, chain, pending, ledger, last, accepted>>

\* add_block, line 63: the new list is bound to pending_transactions.
Store(t) ==
    /\ threads[t].pc = "store"
    /\ pending' = threads[t].filtered
    /\ threads' = [threads EXCEPT ![t].pc = "append"]
    /\ UNCHANGED <<netvars, chain, ledger, last, accepted>>

\* add_block, lines 64-66.
AppendBlock(t) ==
    /\ threads[t].pc = "append"
    /\ chain' = Append(chain, threads[t].block)
    /\ threads' = [threads EXCEPT ![t] = Idle]
    /\ UNCHANGED <<netvars, pending, ledger, last, accepted>>

NextConc ==
    \/ \E t \in Handlers : AddTransactionGetBalance(t)
    \/ \E t \in Handlers : AddTransactionSpendings(t)
    \/ \E t \in Handlers : AddTransactionGetNonce(t)
    \/ \E t \in Handlers : AddTransactionIncrementNonce(t)
    \/ \E t \in Handlers : AddTransactionAppend(t)
    \/ \E t \in Handlers : HandlerReceiveBlock(t)
    \/ MinerLeaveWait
    \/ MinerSort
    \/ MinerIndex
    \/ MinerPreviousHash
    \/ \E t \in Threads : Validate(t)
    \/ \E t \in Threads : Apply(t)
    \/ \E t \in Threads : Filter(t)
    \/ \E t \in Threads : Store(t)
    \/ \E t \in Threads : AppendBlock(t)

SpecConc == Init /\ [][NextConc]_vars

\* --------------------------------------- calls that involve the key COINBASE
\* The transactions handed to add_transaction: coinbase transactions as the
\* constructor builds them and with a nonce attribute set, a transaction from
\* the sender "COINBASE" that is no coinbase, and signed transfers.
CoinbaseInputs ==
    {CoinbaseTo(K2)} \cup {WithNonce(CoinbaseTo(K2), n) : n \in 0..1}
        \cup {WithNonce(NewTransaction(K2, Reward * TenthsPerCoin, COINBASE, FALSE), 0)}
        \cup {WithNonce(SignedTransfer(SEED, a), n) : a \in Amounts, n \in 0..1}

\* The blocks handed to add_block: built on the tip and mined, with one
\* coinbase that pays the miner or the key "COINBASE".
CoinbaseBlocks(C) ==
    {MinedBlock(Len(C), GetLastBlock(C).hash, <<CoinbaseTo(r)>>, 1, Difficulty) :
        r \in {MINER, COINBASE}}

\* One call of Blockchain.add_transaction.
CbAddTransaction ==
    /\ last.op = "none"
    /\ \E tx \in CoinbaseInputs :
         LET r == AddTransaction(pending, ledger, tx)
         IN  /\ r.ret = "True" => Len(pending) < MaxPending
             /\ pending' = r.pending
             /\ ledger' = r.ledger
             /\ last' = Call("add_transaction", tx, CreateGenesis, r.ret, "")
             /\ accepted' = IF r.ret = "True" /\ tx.sender \in DOMAIN accepted
                            THEN Accept(tx) ELSE accepted
             /\ UNCHANGED <<netvars, chain, threads>>

\* One call of Blockchain.add_block.
CbAddBlock ==
    /\ last.op = "none"
    /\ \E block \in CoinbaseBlocks(chain) :
         LET r == AddBlock(chain, pending, ledger, block)
         IN  /\ r.ret = "True" => Len(chain) < MaxChainCb
             /\ chain' = r.chain
             /\ pending' = r.pending
             /\ ledger' = r.ledger
             /\ last' = Call("add_block", NoTx, block, r.ret, "")
             /\ UNCHANGED <<netvars, accepted, threads>>

\* One call of Blockchain.mine_pending_transactions that leaves its wait.
CbMine ==
    /\ last.op = "none"
    /\ Len(pending) >= MinPendingToMine
    /\ Len(chain) < MaxChainCb
    /\ \E rank \in DigestOrders(pending) :
       LET block == AssembleBlock(chain, pending, MINER, 1, rank)
           r == AddBlock(chain, pending, ledger, block)
       IN  /\ chain' = r.chain
           /\ pending' = r.pending
           /\ ledger' = r.ledger
           /\ last' = Call("mine_pending_transactions", NoTx, block,
                           IF r.ret = "True" THEN "Block" ELSE
                           IF r.ret = "False" THEN "None" ELSE "Raise", "")
           /\ UNCHANGED <<netvars, accepted, threads>>

NextCoinbase == CbAddTransaction \/ CbAddBlock \/ CbMine \/ Return

SpecCoinbase == Init /\ [][NextCoinbase]_vars

\* ------------------------------------- calls of the methods that only read
\* Transaction.is_valid, Transaction.calculate_hash, Block.is_valid and
\* Blockchain.is_valid, each applied to an input drawn by the initial state.
\* A transfer of 6.0 from the seed key, signed, and what a caller makes of it
\* by assigning to an attribute after sign_transaction.
PureTransfer == SignedTransfer(SEED, 6 * TenthsPerCoin)
PureTxs ==
    {PureTransfer, WithNonce(PureTransfer, 0),
     [PureTransfer EXCEPT !.amount = 60 * TenthsPerCoin],
     [PureTransfer EXCEPT !.receiver = SEED],
     [PureTransfer EXCEPT !.sender = K2],
     [PureTransfer EXCEPT !.sender = NOKEY],
     [PureTransfer EXCEPT !.signature = [by |-> K2, msg |-> PureTransfer.tx_hash]],
     NewTransaction(K2, 6 * TenthsPerCoin, SEED, FALSE),
     SignTransaction(NewTransaction(K2, 6 * TenthsPerCoin, "", FALSE), SEED),
     CoinbaseTo(MINER),
     NewTransaction(MINER, (Reward - 1) * TenthsPerCoin, "", TRUE)}

\* The blocks given to Block.is_valid with the tip of C as previous_block:
\* a mined block on the tip and blocks with one flaw, or with a transaction
\* altered after it was signed, or with no transaction.
PureBlocks(C) ==
    LET tip == GetLastBlock(C)
        cb == CoinbaseTo(MINER)
        S == WithNonce(PureTransfer, 0)
        onTip(txs, zeros) == MinedBlock(Len(C), tip.hash, txs, 1, zeros)
    IN  {onTip(<<cb, S>>, Difficulty),
         onTip(<<cb, S>>, Difficulty - 1),
         MinedBlock(Len(C), tip.previous_hash, <<cb, S>>, 1, Difficulty),
         [onTip(<<cb, S>>, Difficulty) EXCEPT !.hash = onTip(<<cb>>, Difficulty).hash],
         onTip(<<cb, S, NewTransaction(K2, 6 * TenthsPerCoin, SEED, FALSE)>>, Difficulty),
         onTip(<<NewTransaction(MINER, (Reward - 1) * TenthsPerCoin, "", TRUE), S>>, Difficulty),
         onTip(<<cb, [S EXCEPT !.amount = 60 * TenthsPerCoin]>>, Difficulty),
         onTip(<<cb, S, [S EXCEPT !.sender = NOKEY]>>, Difficulty),
         [onTip(<<cb, S>>, Difficulty) EXCEPT
              !.timestamp = 5,
              !.hash = BlockCalculateHash([onTip(<<cb, S>>, Difficulty) EXCEPT !.timestamp = 5])],
         onTip(<<>>, Difficulty)}

\* The chains given to Blockchain.is_valid: the genesis alone, and the genesis
\* followed by a block that add_block accepted, with or without a transfer.
PureChains ==
    LET S == WithNonce(PureTransfer, 0)
        a == AddTransaction(<<>>, InitialLedger, S)
        blocks == {MinedBlock(1, GenesisHash, <<CoinbaseTo(MINER)>> \o txs, 1, Difficulty) :
                      txs \in {<<>>, <<S>>}}
        results == {AddBlock(<<CreateGenesis>>, a.pending, a.ledger, b) : b \in blocks}
    IN  {<<CreateGenesis>>} \cup {r.chain : r \in {x \in results : x.ret = "True"}}

InitPure ==
    /\ chain \in PureChains
    /\ pending = <<>>
    /\ ledger = InitialLedger
    /\ last \in {Call("input", tx, block, "", "") :
                    tx \in PureTxs, block \in PureBlocks(chain)}
    /\ accepted = [k \in {SEED, K2} |-> [has |-> FALSE, nonce |-> 0]]
    /\ threads = [t \in Threads |-> Idle]
    /\ NetIdle

\* transaction.is_valid()
CallTransactionIsValid ==
    /\ last.op = "input"
    /\ last' = [last EXCEPT !.op = "transaction_is_valid",
                            !.ret = TxIsValid(last.tx)]
    /\ UNCHANGED <<netvars, chain, pending, ledger, accepted, threads>>

\* The transaction with one attribute assigned another value.
HashFields == {"none", "is_coinbase", "sender", "receiver", "amount", "nonce"}
Altered(tx, field) ==
    CASE field = "is_coinbase" -> [tx EXCEPT !.is_coinbase = ~tx.is_coinbase]
      [] field = "sender" -> [tx EXCEPT !.sender = OtherKey(tx.sender)]
      [] field = "receiver" -> [tx EXCEPT !.receiver = OtherKey(tx.receiver)]
      [] field = "amount" -> [tx EXCEPT !.amount = tx.amount + TenthsPerCoin]
      [] field = "nonce" -> WithNonce(tx, tx.nonce + 1)
      [] OTHER -> tx

\* calculate_hash() of the transaction and of the transaction that differs
\* from it in one field: the two digests are the same or differ.
CallCalculateHash ==
    /\ last.op = "input"
    /\ \E field \in HashFields :
         last' = [last EXCEPT !.op = "calculate_hash",
                    !.ret = IF TxCalculateHash(Altered(last.tx, field)) = TxCalculateHash(last.tx)
                            THEN "Same" ELSE "Differs",
                    !.ret2 = field]
    /\ UNCHANGED <<netvars, chain, pending, ledger, accepted, threads>>

\* block.is_valid(difficulty, previous_block) with the tip as previous_block.
CallBlockIsValid ==
    /\ last.op = "input"
    /\ last' = [last EXCEPT !.op = "block_is_valid",
                  !.ret = BlockIsValid(last.block, Difficulty, GetLastBlock(chain))]
    /\ UNCHANGED <<netvars, chain, pending, ledger, accepted, threads>>

\* What a caller makes of the chain by assigning to an attribute of block 1
\* or of one of its transactions, then or not setting hash = calculate_hash().
TamperKinds == {"none", "coinbase_amount", "transfer_amount", "previous_hash", "timestamp"}
Rehash(block) == [block EXCEPT !.hash = BlockCalculateHash(block)]
TamperedBlock(block, kind) ==
    CASE kind = "coinbase_amount" ->
             [block EXCEPT !.transactions[1].amount = 100 * TenthsPerCoin]
      [] kind = "transfer_amount" ->
             [block EXCEPT !.transactions[2].amount = 100 * TenthsPerCoin]
      [] kind = "previous_hash" -> [block EXCEPT !.previous_hash = GenesisPreviousHash]
      [] kind = "timestamp" -> [block EXCEPT !.timestamp = 5]
      [] OTHER -> block

\* blockchain.is_valid() on the chain as it is or tampered with; the chain of
\* the state is left as it was.
CallBlockchainIsValid ==
    /\ last.op = "input"
    /\ \E kind \in TamperKinds, rehash \in BOOLEAN :
         /\ kind # "none" => Len(chain) >= 2
         /\ kind = "transfer_amount" => Len(chain[2].transactions) >= 2
         /\ kind = "none" => ~rehash
         /\ LET b == IF kind = "none" THEN GetLastBlock(chain)
                     ELSE TamperedBlock(chain[2], kind)
                b1 == IF rehash THEN Rehash(b) ELSE b
                C == IF kind = "none" THEN chain ELSE [chain EXCEPT ![2] = b1]
            IN  last' = [last EXCEPT !.op = "blockchain_is_valid", !.block = b1,
                           !.ret = BlockchainIsValid(C), !.ret2 = kind]
    /\ UNCHANGED <<netvars, chain, pending, ledger, accepted, threads>>

NextPure ==
    \/ CallTransactionIsValid
    \/ CallCalculateHash
    \/ CallBlockIsValid
    \/ CallBlockchainIsValid

SpecPure == InitPure /\ [][NextPure]_vars

\* ------------------------------- handler threads inside PeerManager.add_peer
\* The table `node` lives in the file blockchain.db and create_table keeps
\* the rows it finds: a node starts with no rows or with the rows an earlier
\* run left.  Handler threads then add the addresses of the messages
\* send_peers, from_genesis and health_check, each thread one add_peer call
\* after the other; no lock spans the count of line 449 and the insert of
\* line 455.
StoredPeers == 1..MaxStored
FreshPeers == (MaxStored + 1)..(MaxStored + MaxFresh)

\* The messages that add peers, and the addresses process_message hands to
\* add_peer for each, in order (lines 164-177).
PeerMessages ==
    {[type |-> "send_peers", address |-> a, peers |-> ps] :
        a \in FreshPeers, ps \in {<<>>} \cup {<<b>> : b \in FreshPeers}}
    \cup {[type |-> "from_genesis", address |-> NoAddr, peers |-> ps] :
        ps \in {<<b>> : b \in FreshPeers} \cup (FreshPeers \X FreshPeers)}
    \cup {[type |-> "health_check", address |-> a, peers |-> <<>>] :
        a \in FreshPeers}
AddressesOf(message) ==
    IF message.type = "from_genesis" THEN message.peers
    ELSE <<message.address>> \o message.peers


InitAddPeer ==
    /\ CoreIdle
    /\ registry \in {NoPeers, [a \in StoredPeers |-> FALSE]}
    /\ workers = [t \in Handlers |-> WorkerIdle]
    /\ loops = LoopsIdle
    /\ sent = {}
    /\ conn = ConnIdle
    /\ replicas = <<>>

\* handle_client: a handler thread has read a message that adds peers.
WorkerReceive(t) ==
    /\ workers[t].pc = "idle"
    /\ \E message \in PeerMessages :
         workers' = [workers EXCEPT ![t] =
                        [pc |-> "count", todo |-> AddressesOf(message),
                         max_peers |-> MAX_PEERS,
                         reply |-> message.type = "health_check",
                         address |-> NoAddr]]
    /\ UNCHANGED <<chain, pending, ledger, last, accepted, threads,
                   registry, loops, sent, conn, replicas>>

\* add_peer, lines 446-451: the rows are counted.
WorkerCount(t) ==
    /\ workers[t].pc = "count"
    /\ workers[t].todo # <<>>
    /\ workers' = [workers EXCEPT ![t] =
                      IF AddPeerRefuses(registry, workers[t].max_peers)
                      THEN [@ EXCEPT !.todo = Tail(@)]
                      ELSE [@ EXCEPT !.pc = "insert"]]
    /\ UNCHANGED <<chain, pending, ledger, last, accepted, threads,
                   registry, loops, sent, conn, replicas>>

\* add_peer, lines 453-457: the row is inserted.
WorkerInsert(t) ==
    /\ workers[t].pc = "insert"
    /\ registry' = InsertOrIgnore(registry, Head(workers[t].todo))
    /\ workers' = [workers EXCEPT ![t].pc = "count", ![t].todo = Tail(@)]
    /\ UNCHANGED <<chain, pending, ledger, last, accepted, threads,
                   loops, sent, conn, replicas>>

\* process_message returns; health_check has answered before (line 180).
WorkerReturn(t) ==
    /\ workers[t].pc = "count"
    /\ workers[t].todo = <<>>
    /\ workers' = [workers EXCEPT ![t] = WorkerIdle]
    /\ sent' = IF workers[t].reply THEN {Reply(HealthyResponse)} ELSE {}
    /\ UNCHANGED <<chain, pending, ledger, last, accepted, threads,
                   registry, loops, conn, replicas>>

\* handle_user_input, lines 280-284: the console line add_peer <ip:port>
\* calls add_peer with no bound; the count of line 449 is skipped and the
\* row is inserted whatever the table holds.
UserAddPeer ==
    /\ \E peer_addr \in FreshPeers :
         registry' = AddPeer(registry, peer_addr, NoMax)
    /\ UNCHANGED <<chain, pending, ledger, last, accepted, threads,
                   workers, loops, sent, conn, replicas>>

NextAddPeer ==
    \/ UserAddPeer
    \/ \E t \in Handlers : WorkerReceive(t)
    \/ \E t \in Handlers : WorkerCount(t)
    \/ \E t \in Handlers : WorkerInsert(t)
    \/ \E t \in Handlers : WorkerReturn(t)

SpecAddPeer == InitAddPeer /\ [][NextAddPeer]_vars

\* ------------------------------------------- the peer loops of a Node
\* The health-check loop and the gossip loop of a Node and calls of
\* broadcast, each next to handler threads that receive peer messages.  The
\* addresses are the node's own and those of MaxPeer peers.
PeerPool == {Self} \cup 1..MaxPeer

\* The peer messages a handler thread is given: the sender names its own
\* address and lists up to two addresses.
NodeMessages ==
    LET lists == {<<>>} \cup {<<b>> : b \in PeerPool} \cup (PeerPool \X PeerPool)
    IN  {[type |-> "send_peers", address |-> a, peers |-> ps] :
            a \in 1..MaxPeer, ps \in lists}
        \cup {[type |-> "from_genesis", address |-> NoAddr, peers |-> ps] : ps \in lists}
        \cup {[type |-> "health_check", address |-> a, peers |-> <<>>] :
                a \in 1..MaxPeer}

\* process_message for send_peers, from_genesis and health_check (lines
\* 164-180), run by a handler thread.
ProcessPeerMessage ==
    /\ \E message \in NodeMessages :
         /\ registry' = AddPeers(registry, AddressesOf(message), MAX_PEERS)
         /\ sent' = IF message.type = "health_check" THEN {Reply(HealthyResponse)}
                    ELSE {}
    /\ UNCHANGED <<chain, pending, ledger, last, accepted, threads,
                   workers, loops, conn, replicas>>

\* perform_health_check, line 371 (125 on the bootstrap directory): the round
\* starts with the rows get_all_peers returns.  The query fixes no order;
\* `todo` holds the rows of the round that have not been dialed.
HealthStart(role) ==
    /\ loops.health.pc = "sleep"
    /\ loops' = [loops EXCEPT !.health =
                    [pc |-> IF GetAllPeers(registry) = {} THEN "sleep" ELSE "round",
                     role |-> role, todo |-> GetAllPeers(registry),
                     checked |-> NoCheck]]
    /\ UNCHANGED <<chain, pending, ledger, last, accepted, threads,
                   registry, workers, sent, conn, replicas>>

\* perform_health_check, one pass of the loop body: the next peer is dialed.
\* An exception the inner handler does not catch leaves the loop and ends
\* the round (line 394, 149 on the bootstrap directory).
HealthCheckPeer(role) ==
    /\ loops.health.pc = "round"
    /\ \E peer \in loops.health.todo, outcome \in Outcomes :
         LET rest == loops.health.todo \ {peer}
         IN  /\ registry' = HealthOutcome(registry, role, peer, outcome)
             /\ loops' = [loops EXCEPT !.health =
                             [pc |-> IF Escapes(outcome) \/ rest = {}
                                     THEN "sleep" ELSE "round",
                              role |-> role, todo |-> rest,
                              checked |-> [peer |-> peer, outcome |-> outcome]]]
    /\ UNCHANGED <<chain, pending, ledger, last, accepted, threads,
                   workers, sent, conn, replicas>>

\* The answers of the bootstrap directory: GOSSIP_COUNT (3) peers, the
\* requester not among them.
GenesisAnswers ==
    UNION {Orders(S) : S \in {T \in SUBSET (1..MaxPeer) :
                                  Cardinality(T) = BootstrapNode_GOSSIP_COUNT}}

\* gossip, lines 322-327: up to GOSSIP_COUNT online peers are selected; with
\* none selected connect_to_genesis is next.
GossipSelect ==
    /\ loops.gossip.pc = "sleep"
    /\ \E S \in GetPeers(registry, GOSSIP_COUNT, NoAddr) :
         IF S = {}
         THEN loops' = [loops EXCEPT !.gossip = [pc |-> "genesis", todo |-> <<>>]]
         ELSE \E order \in Orders(S) :
                loops' = [loops EXCEPT !.gossip = [pc |-> "gossip", todo |-> order]]
    /\ sent' = {}
    /\ UNCHANGED <<chain, pending, ledger, last, accepted, threads,
                   registry, workers, conn, replicas>>

\* connect_to_genesis, lines 331-340, after the query of line 322 came back
\* empty.  The dial or the write fails and the call returns, or the request
\* is written and the thread waits in recv for the answer.
GossipConnectToGenesis ==
    /\ loops.gossip.pc = "genesis"
    /\ \/ /\ sent' = {Message(Genesis, "request_peers", Self, {}, FALSE)}
          /\ loops' = [loops EXCEPT !.gossip = GossipIdle]
       \/ /\ sent' = {Message(Genesis, "request_peers", Self, {}, TRUE)}
          /\ loops' = [loops EXCEPT !.gossip = [pc |-> "recv", todo |-> <<>>]]
    /\ UNCHANGED <<chain, pending, ledger, last, accepted, threads,
                   registry, workers, conn, replicas>>

\* connect_to_genesis, lines 342-348: recv ends.  No answer came within
\* the timeout, or the answer is handed to process_message, which adds the
\* peers it lists.
GossipReceiveFromGenesis ==
    /\ loops.gossip.pc = "recv"
    /\ loops' = [loops EXCEPT !.gossip = GossipIdle]
    /\ \/ UNCHANGED registry
       \/ \E peers \in GenesisAnswers :
            registry' = AddPeers(registry, peers, MAX_PEERS)
    /\ UNCHANGED <<chain, pending, ledger, last, accepted, threads,
                   workers, sent, conn, replicas>>

\* gossip_with_peer for the next selected peer: send_peers is written, or the
\* dial or the write fails and the peer is removed.
GossipWithPeer ==
    /\ loops.gossip.pc = "gossip"
    /\ LET peer_addr == Head(loops.gossip.todo)
           rest == Tail(loops.gossip.todo)
       IN  /\ \/ \E peers \in GetPeers(registry, GossipListSize, peer_addr) :
                    /\ sent' = sent \cup
                                {Message(peer_addr, "send_peers", Self, peers, TRUE)}
                    /\ UNCHANGED registry
              \/ /\ sent' = sent \cup
                                {Message(peer_addr, "send_peers", Self, {}, FALSE)}
                 /\ registry' = RemovePeer(registry, peer_addr)
           /\ loops' = [loops EXCEPT !.gossip =
                           [pc |-> IF rest = <<>> THEN "sleep" ELSE "gossip",
                            todo |-> rest]]
    /\ UNCHANGED <<chain, pending, ledger, last, accepted, threads,
                   workers, conn, replicas>>

\* A thread calls Node.broadcast.
DoBroadcast ==
    /\ last.op = "none"
    /\ loops.broadcast.pc = "idle"
    /\ last' = Call("broadcast", NoTx, CreateGenesis, "", "")
    /\ loops' = [loops EXCEPT !.broadcast = CallBroadcast("new_transaction")]
    /\ UNCHANGED <<chain, pending, ledger, accepted, threads,
                   registry, workers, sent, conn, replicas>>

\* broadcast, lines 263-265.  The ValueError of an empty registry leaves
\* broadcast: process_message and handle_user_input log it, mine_blocks has
\* no handler and its thread ends.
BroadcastSubmit ==
    /\ loops.broadcast.pc = "call"
    /\ LET b == SubmitDials(loops.broadcast, registry)
       IN  IF b.pc = "raise"
           THEN /\ loops' = [loops EXCEPT
                               !.broadcast = NoBroadcast,
                               !.mining = IF @ = "broadcast" THEN "dead" ELSE @]
                /\ last' = [last EXCEPT !.ret2 = "Raise"]
           ELSE /\ loops' = [loops EXCEPT !.broadcast = b]
                /\ UNCHANGED last
    /\ UNCHANGED <<chain, pending, ledger, accepted, threads,
                   registry, workers, sent, conn, replicas>>

\* One thread of the pool runs send_message_to_peer up to its outcome.
BroadcastDial ==
    /\ loops.broadcast.pc = "dial"
    /\ \E peer \in loops.broadcast.todo, ok \in BOOLEAN :
         loops' = [loops EXCEPT !.broadcast = SendMessageToPeer(@, peer, ok)]
    /\ UNCHANGED <<chain, pending, ledger, last, accepted, threads,
                   registry, workers, sent, conn, replicas>>

\* send_message_to_peer, line 261: the thread whose dial failed removes the
\* peer.
BroadcastRemovePeer ==
    /\ loops.broadcast.pc = "dial"
    /\ \E peer \in loops.broadcast.failed :
         /\ registry' = RemovePeer(registry, peer)
         /\ loops' = [loops EXCEPT !.broadcast.failed = @ \ {peer},
                                   !.broadcast.removed = @ \cup {peer}]
    /\ UNCHANGED <<chain, pending, ledger, last, accepted, threads,
                   workers, sent, conn, replicas>>

\* broadcast, lines 266-268: every thread of the pool is done, the call
\* returns.
BroadcastWait ==
    /\ loops.broadcast.pc = "dial"
    /\ loops.broadcast.todo = {}
    /\ loops.broadcast.failed = {}
    /\ loops' = [loops EXCEPT !.broadcast = NoBroadcast,
                              !.mining = IF @ = "broadcast" THEN "running" ELSE @]
    /\ last' = [last EXCEPT !.ret2 = "None"]
    /\ UNCHANGED <<chain, pending, ledger, accepted, threads,
                   registry, workers, sent, conn, replicas>>

\* The health-check loop next to handler threads.
NextHealth ==
    \/ ProcessPeerMessage
    \/ HealthStart("node")
    \/ HealthCheckPeer("node")

SpecHealth == Init /\ [][NextHealth]_vars

\* The gossip loop next to handler threads.
NextGossip ==
    \/ ProcessPeerMessage
    \/ GossipConnectToGenesis
    \/ GossipReceiveFromGenesis
    \/ GossipSelect
    \/ GossipWithPeer

SpecGossip == Init /\ [][NextGossip]_vars

\* Calls of broadcast next to handler threads.
NextBroadcast ==
    \/ ProcessPeerMessage
    \/ DoBroadcast
    \/ BroadcastSubmit
    \/ BroadcastDial
    \/ BroadcastRemovePeer
    \/ BroadcastWait
    \/ Return

SpecBroadcast == Init /\ [][NextBroadcast]_vars

\* ------------------------------------------------------- the mining loop
\* mine_blocks, lines 235-246: mine_pending_transactions, past its wait,
\* returns; a returned block is put into a new_block_mined message and
\* broadcast is entered.  The loop has no exception handler: an exception of
\* either call ends the thread.
MineBlocksPass ==
    /\ loops.mining = "running"
    /\ last.op = "none"
    /\ threads["mining"].pc = "sort"
    /\ threads' = [threads EXCEPT !["mining"].pc = "idle"]
    /\ \E rank \in DigestOrders(pending) :
       LET block == AssembleBlock(chain, pending, MINER, 1, rank)
           r == AddBlock(chain, pending, ledger, block)
           new_block == IF r.ret = "True" THEN "Block" ELSE
                        IF r.ret = "False" THEN "None" ELSE "Raise"
       IN  /\ chain' = r.chain
           /\ pending' = r.pending
           /\ ledger' = r.ledger
           /\ last' = Call("mine_blocks", NoTx, block, new_block, "")
           /\ loops' = [loops EXCEPT
                           !.mining = IF new_block = "Block" THEN "broadcast" ELSE
                                      IF new_block = "Raise" THEN "dead" ELSE "running",
                           !.broadcast = IF new_block = "Block"
                                         THEN CallBroadcast("new_block_mined") ELSE @]
    /\ UNCHANGED <<accepted, registry, workers, sent, conn, replicas>>

\* The mining loop next to the handler threads that take transactions and
\* peer addresses.
NextMining ==
    \/ DoAddTransaction
    \/ ProcessPeerMessage
    \/ DoMineLeaveWait
    \/ MineBlocksPass
    \/ BroadcastSubmit
    \/ BroadcastDial
    \/ BroadcastRemovePeer
    \/ BroadcastWait
    \/ Return

\* A node started in a directory that has no store yet.
InitMining == CoreIdle /\ NetIdle

SpecMining == InitMining /\ [][NextMining]_vars

\* --------------------------------------- received blocks and transactions
\* process_message with `self.broadcast(...)` moved out of the `if`: the
\* block is sent on whatever add_block returned.
ProcessNewBlockMinedAlwaysForwards ==
    /\ last.op = "none"
    /\ loops.broadcast.pc = "idle"
    /\ \E b \in ReceivedBlocks(chain) :
         LET mined_block == BlockFromDict(BlockToDict(b))
             r == AddBlock(chain, pending, ledger, mined_block)
         IN  /\ r.ret = "True" => Len(chain) < MaxChain
             /\ chain' = r.chain
             /\ pending' = r.pending
             /\ ledger' = r.ledger
             /\ last' = Call("new_block_mined", NoTx, mined_block, r.ret, "")
             /\ loops' = [loops EXCEPT !.broadcast = CallBroadcast("new_block_mined")]
    /\ UNCHANGED <<accepted, threads, registry, workers, sent, conn, replicas>>

\* process_message for new_block_mined, lines 187-204, in a handler thread:
\* the block is rebuilt from the message and handed to add_block; broadcast
\* is entered when add_block returned True.  An exception is logged.
ProcessNewBlockMined ==
    /\ last.op = "none"
    /\ loops.broadcast.pc = "idle"
    /\ \E b \in ReceivedBlocks(chain) :
         LET mined_block == BlockFromDict(BlockToDict(b))
             r == AddBlock(chain, pending, ledger, mined_block)
         IN  /\ r.ret = "True" => Len(chain) < MaxChain
             /\ chain' = r.chain
             /\ pending' = r.pending
             /\ ledger' = r.ledger
             /\ last' = Call("new_block_mined", NoTx, mined_block, r.ret, "")
             /\ loops' = [loops EXCEPT
                             !.broadcast = IF r.ret = "True"
                                           THEN CallBroadcast("new_block_mined") ELSE @]
    /\ UNCHANGED <<accepted, threads, registry, workers, sent, conn, replicas>>

\* process_message for new_transaction, lines 206-223, in a handler thread.
ProcessNewTransaction ==
    /\ last.op = "none"
    /\ loops.broadcast.pc = "idle"
    /\ \E tx \in TxUniverse :
         LET new_transaction == TransactionFromDict(TransactionToDict(tx))
             r == AddTransaction(pending, ledger, new_transaction)
         IN  /\ r.ret = "True" => Len(pending) < MaxPending
             /\ pending' = r.pending
             /\ ledger' = r.ledger
             /\ last' = Call("new_transaction", new_transaction, CreateGenesis,
                             r.ret, "")
             /\ loops' = [loops EXCEPT
                             !.broadcast = IF r.ret = "True"
                                           THEN CallBroadcast("new_transaction") ELSE @]
    /\ UNCHANGED <<chain, accepted, threads, registry, workers, sent, conn, replicas>>

\* A handler thread that takes blocks and transactions and sends on what
\* it accepted, next to handler threads that take peer addresses.
NextForward ==
    \/ ProcessPeerMessage
    \/ ProcessNewBlockMined
    \/ ProcessNewTransaction
    \/ BroadcastSubmit
    \/ BroadcastDial
    \/ BroadcastRemovePeer
    \/ BroadcastWait
    \/ Return

SpecForward == Init /\ [][NextForward]_vars

\* ------------------------------------------------ the bootstrap directory
\* BootstrapNode: handler threads that answer request_peers, next to the
\* health-check loop that flags the registered peers offline and online.
Requesters == 1..MaxRequester

\* One handler thread per requester: the thread of the connection on which
\* its request_peers arrives.
InitBootstrap ==
    /\ CoreIdle
    /\ registry = NoPeers
    /\ workers = [a \in Requesters |-> WorkerIdle]
    /\ loops = LoopsIdle
    /\ sent = {}
    /\ conn = ConnIdle
    /\ replicas = <<>>

\* process_message, lines 99-102: the requester is registered, without a
\* bound on the rows.
BootstrapReceive(peer_addr) ==
    /\ workers[peer_addr].pc = "idle"
    /\ registry' = AddPeer(registry, peer_addr, NoMax)
    /\ workers' = [workers EXCEPT ![peer_addr] =
                      [WorkerIdle EXCEPT !.pc = "poll", !.address = peer_addr]]
    /\ UNCHANGED <<chain, pending, ledger, last, accepted, threads,
                   loops, sent, conn, replicas>>

\* process_message, lines 104-117: a get_peers query that returns
\* GOSSIP_COUNT peers ends the wait and is answered with from_genesis.  A
\* query that returns fewer peers is followed by time.sleep(5) and the next
\* query, which changes nothing.
BootstrapAnswer(t) ==
    /\ workers[t].pc = "poll"
    /\ \E peers \in GetPeers(registry, BootstrapNode_GOSSIP_COUNT, workers[t].address) :
         /\ ~(Cardinality(peers) < BootstrapNode_GOSSIP_COUNT)
         /\ sent' = {Message(Client, "from_genesis", NoAddr, peers, TRUE)}
    /\ workers' = [workers EXCEPT ![t] = WorkerIdle]
    /\ UNCHANGED <<chain, pending, ledger, last, accepted, threads,
                   registry, loops, conn, replicas>>

NextBootstrap ==
    \/ \E a \in Requesters : BootstrapReceive(a)
    \/ \E t \in Requesters : BootstrapAnswer(t)
    \/ HealthStart("bootstrap")
    \/ HealthCheckPeer("bootstrap")

SpecBootstrap == InitBootstrap /\ [][NextBootstrap]_vars

\* ------------------------------------------------------ a network of nodes
\* MaxNode nodes on one host, each a process with its own chain and mempool,
\* every node registered with and reachable by every other.  The account
\* table and the peer table are in the file blockchain.db next to the source
\* (get_database_path): nodes started from one checkout share the two
\* tables, nodes started from copies of the checkout have their own.  The
\* one peer table of a checkout holds a row for every node, so that each is
\* known to the others and reads its own row as well; a peer table of its
\* own holds the rows of the other nodes.  `out` holds the dials the
\* broadcasts of a node have still to make, `wire` the new_block_mined
\* messages written to a connection and not yet handled by their receiver,
\* each as often as it was written.
NetNodes == 1..MaxNode

NodeStart == [chain |-> <<CreateGenesis>>, pending |-> <<>>, mining |-> "wait", out |-> {}]

NetStart(shared) ==
    [shared |-> shared,
     node |-> [n \in NetNodes |-> NodeStart],
     tables |-> [n \in NetNodes |-> InitialLedger],
     rows |-> [n \in NetNodes |-> IF shared THEN NetNodes ELSE NetNodes \ {n}],
     wire |-> EmptyBag]

InitNet ==
    /\ CoreIdle
    /\ registry = NoPeers
    /\ workers = [t \in Handlers |-> WorkerIdle]
    /\ loops = LoopsIdle
    /\ sent = {}
    /\ conn = ConnIdle
    /\ replicas \in {NetStart(shared) : shared \in BOOLEAN}

\* The tables AccountManager and PeerManager of the node n open.
TableOf(R, n) == IF R.shared THEN 1 ELSE n

\* The transfers users hand to the nodes: the seed key pays 1, 2, ... coins,
\* with the nonces 0, 1, ... set on the objects.
NetTransfers ==
    {WithNonce(SignedTransfer(SEED, (n + 1) * TenthsPerCoin), n) : n \in 0..MaxNonce}

\* The hashes of the blocks of a chain.
ChainHashes(C) == [i \in 1..Len(C) |-> C[i].hash]

\* The dials of one broadcast of new_block_mined by the node `from`, run by
\* its mining loop or by one of its handler threads: one for every row of
\* get_all_peers, the node's own row included.
Announce(R, from, block, by) ==
    {[to |-> m, block |-> BlockToDict(block), by |-> by] :
        m \in R.rows[TableOf(R, from)]}

\* Blockchain.add_transaction on the node n.
NetAddTransaction(n) ==
    /\ \E tx \in NetTransfers :
         LET me == replicas.node[n]
             r == AddTransaction(me.pending, replicas.tables[TableOf(replicas, n)], tx)
         IN  /\ r.ret = "True" => Len(me.pending) < MaxPending
             /\ replicas' = [replicas EXCEPT
                               !.node[n].pending = r.pending,
                               !.tables[TableOf(replicas, n)] = r.ledger]
    /\ UNCHANGED <<chain, pending, ledger, last, accepted, threads,
                   registry, workers, loops, sent, conn>>

\* mine_pending_transactions on the node n, lines 134-135: the wait is left.
NetLeaveWait(n) ==
    /\ replicas.node[n].mining = "wait"
    /\ Len(replicas.node[n].pending) >= MinPendingToMine
    /\ Len(replicas.node[n].chain) < MaxChain
    /\ replicas' = [replicas EXCEPT !.node[n].mining = "sort"]
    /\ UNCHANGED <<chain, pending, ledger, last, accepted, threads,
                   registry, workers, loops, sent, conn>>

\* mine_blocks on the node n, lines 235-246, after the wait: the candidate
\* is built from the mempool as it is now and handed to add_block; a
\* returned block is put into a new_block_mined message and broadcast
\* submits one dial per peer.  An exception ends the mining thread.
NetMine(n) ==
    /\ replicas.node[n].mining = "sort"
    /\ \E rank \in DigestOrders(replicas.node[n].pending) :
       LET me == replicas.node[n]
           block == AssembleBlock(me.chain, me.pending, MINER, 1, rank)
           r == AddBlock(me.chain, me.pending, replicas.tables[TableOf(replicas, n)], block)
       IN  replicas' = [replicas EXCEPT
                          !.node[n] =
                              [chain |-> r.chain, pending |-> r.pending,
                               mining |-> IF r.ret = "True" THEN "broadcast" ELSE
                                          IF r.ret = "False" THEN "wait" ELSE "dead",
                               out |-> IF r.ret = "True"
                                       THEN me.out \cup Announce(replicas, n, block, "mining")
                                       ELSE me.out],
                          !.tables[TableOf(replicas, n)] = r.ledger]
    /\ UNCHANGED <<chain, pending, ledger, last, accepted, threads,
                   registry, workers, loops, sent, conn>>

\* send_message_to_peer in a pool thread of the node n: one message is
\* written to its peer.  The broadcast of the mining loop returns with its
\* last dial, and the loop goes back to mine_pending_transactions.
NetDial(n) ==
    /\ \E d \in replicas.node[n].out :
         LET rest == replicas.node[n].out \ {d}
         IN  replicas' = [replicas EXCEPT
                            !.node[n].out = rest,
                            !.node[n].mining =
                                IF @ = "broadcast" /\ \A e \in rest : e.by # "mining"
                                THEN "wait" ELSE @,
                            !.wire = @ (+) SetToBag({[to |-> d.to, block |-> d.block]})]
    /\ UNCHANGED <<chain, pending, ledger, last, accepted, threads,
                   registry, workers, loops, sent, conn>>

\* process_message in a handler thread of the node m, lines 187-204, for one
\* new_block_mined message written to m: the block is rebuilt and handed to
\* add_block; when add_block returned True, broadcast submits one dial per
\* peer.  An exception is logged.
NetDeliver(m) ==
    /\ \E d \in BagToSet(replicas.wire) :
         /\ d.to = m
         /\ LET me == replicas.node[m]
                mined_block == BlockFromDict(d.block)
                r == AddBlock(me.chain, me.pending,
                              replicas.tables[TableOf(replicas, m)], mined_block)
            IN  /\ r.ret = "True" => Len(me.chain) < MaxChain
                /\ replicas' = [replicas EXCEPT
                                  !.node[m].chain = r.chain,
                                  !.node[m].pending = r.pending,
                                  !.node[m].out =
                                      IF r.ret = "True"
                                      THEN @ \cup Announce(replicas, m, mined_block, "handler")
                                      ELSE @,
                                  !.tables[TableOf(replicas, m)] = r.ledger,
                                  !.wire = @ (-) SetToBag({d})]
    /\ UNCHANGED <<chain, pending, ledger, last, accepted, threads,
                   registry, workers, loops, sent, conn>>

NextNet ==
    \E n \in NetNodes :
        \/ NetAddTransaction(n)
        \/ NetLeaveWait(n)
        \/ NetMine(n)
        \/ NetDial(n)
        \/ NetDeliver(n)

SpecNet == InitNet /\ [][NextNet]_vars

\* ------------------------------------------------------- framed connections
\* int.from_bytes(b, 'little')
FromBytesLittle(b) == ((b[4] * 256 + b[3]) * 256 + b[2]) * 256 + b[1]

\* int.from_bytes(buffer[:4], 'big')
FromBytes(b) == ((b[1] * 256 + b[2]) * 256 + b[3]) * 256 + b[4]

\* len(serialized_message).to_bytes(4, "big"), the prefix a sender writes.
ToBytes(n) ==
    <<n \div 16777216, (n \div 65536) % 256, (n \div 256) % 256, n % 256>>

\* length_prefix + serialized_message
Frame(payload) == ToBytes(Len(payload)) \o payload

RECURSIVE Encode(_)
Encode(frames) ==
    IF frames = <<>> THEN <<>> ELSE Frame(Head(frames)) \o Encode(Tail(frames))

\* A continuation byte of a UTF-8 sequence, 10xxxxxx.
Continuation(x) == x \in 128..191

\* The number of bytes of the UTF-8 sequence at the head of b, 0 when the
\* head is none: a lead byte 0xxxxxxx stands alone, 110xxxxx (from 0xC2)
\* takes one continuation byte, 1110xxxx two and 11110xxx (up to 0xF4)
\* three; overlong forms, surrogates and code points above 0x10FFFF are
\* excluded by the range of the second byte.
SequenceLength(b) ==
    LET n == Len(b)
        lead == b[1]
    IN  IF lead < 128 THEN 1
        ELSE IF lead \in 194..223
        THEN (IF n < 2 THEN 0 ELSE IF Continuation(b[2]) THEN 2 ELSE 0)
        ELSE IF lead \in 224..239
        THEN (IF n < 3 THEN 0
              ELSE IF /\ b[2] \in (IF lead = 224 THEN 160..191
                                    ELSE IF lead = 237 THEN 128..159 ELSE 128..191)
                      /\ Continuation(b[3])
                   THEN 3 ELSE 0)
        ELSE IF lead \in 240..244
        THEN (IF n < 4 THEN 0
              ELSE IF /\ b[2] \in (IF lead = 240 THEN 144..191
                                    ELSE IF lead = 244 THEN 128..143 ELSE 128..191)
                      /\ Continuation(b[3])
                      /\ Continuation(b[4])
                   THEN 4 ELSE 0)
        ELSE 0

\* The code point a sequence of k bytes at the head of b stands for.
CodePoint(b, k) ==
    IF k = 1 THEN b[1]
    ELSE IF k = 2 THEN (b[1] - 192) * 64 + (b[2] - 128)
    ELSE IF k = 3 THEN ((b[1] - 224) * 64 + (b[2] - 128)) * 64 + (b[3] - 128)
    ELSE (((b[1] - 240) * 64 + (b[2] - 128)) * 64 + (b[3] - 128)) * 64 + (b[4] - 128)

\* bytes.decode(): the text as its code points; ok is FALSE where decode
\* raises UnicodeDecodeError.
RECURSIVE Decode(_)
Decode(b) ==
    IF b = <<>> THEN [ok |-> TRUE, text |-> <<>>]
    ELSE LET k == SequenceLength(b)
         IN  IF k = 0 THEN [ok |-> FALSE, text |-> <<>>]
             ELSE LET rest == Decode(SubSeq(b, k + 1, Len(b)))
                  IN  IF rest.ok
                      THEN [ok |-> TRUE, text |-> <<CodePoint(b, k)>> \o rest.text]
                      ELSE rest

Decodable(message) == Decode(message).ok

\* handle_client, the loop of lines 68-83 on the bytes buffered: every
\* complete frame at the head of the buffer is cut off and its payload,
\* decoded, handed to process_message; a payload that does not decode is
\* logged and dropped.
RECURSIVE Drain(_, _)
Drain(buffer, dispatched) ==
    IF Len(buffer) < 4 THEN [buffer |-> buffer, dispatched |-> dispatched]
    ELSE LET msg_len == FromBytes(SubSeq(buffer, 1, 4))
             total_msg_len == 4 + msg_len
         IN  IF Len(buffer) >= total_msg_len
             THEN LET message == SubSeq(buffer, 5, total_msg_len)
                  IN  Drain(SubSeq(buffer, total_msg_len + 1, Len(buffer)),
                            IF Decodable(message)
                            THEN Append(dispatched, Decode(message).text)
                            ELSE dispatched)
             ELSE [buffer |-> buffer, dispatched |-> dispatched]

\* The bytes a peer writes into a payload: "{" as json.dumps(...).encode()
\* writes it, and the two bytes of the UTF-8 form of U+00E9, each of which
\* alone or out of place makes the payload undecodable.
PayloadBytes == {123, 195, 169}

Payloads == UNION {[1..n -> PayloadBytes] : n \in 0..MaxPayload}

FrameLists == UNION {[1..n -> Payloads] : n \in 0..MaxFrames}

\* The start of a frame whose rest never arrives: a strict prefix of a frame
\* of the payloads above, or of a frame of 256 bytes.
Partials ==
    UNION {{SubSeq(Frame(p), 1, k) : k \in 0..(Len(Frame(p)) - 1)} : p \in Payloads}
        \cup {<<0, 0, 1, 0>>, <<0, 0, 1, 0, 123>>}

IsPartial(b) ==
    IF Len(b) < 4 THEN TRUE ELSE Len(b) < 4 + FromBytes(SubSeq(b, 1, 4))

\* client.recv(1024) returns at most RecvSize bytes.
RecvSize == 1024

\* A connection accepted by BaseNode.start; the peer writes the frames and
\* the start of one more.
InitFraming ==
    /\ CoreIdle
    /\ registry = NoPeers
    /\ workers = [t \in Handlers |-> WorkerIdle]
    /\ loops = LoopsIdle
    /\ sent = {}
    /\ replicas = <<>>
    /\ \E frames \in FrameLists, partial \in Partials :
         /\ IsPartial(partial)
         /\ conn = [open |-> TRUE, frames |-> frames, partial |-> partial,
                    reads |-> Encode(frames) \o partial,
                    buffer |-> <<>>, dispatched |-> <<>>]

\* handle_client, one pass of the outer loop: recv returns some of the
\* bytes to come, they are appended to the buffer and the buffer is drained.
ConnRecv ==
    /\ conn.open
    /\ conn.reads # <<>>
    /\ \E k \in 1..Len(conn.reads) :
         /\ k <= RecvSize
         /\ LET data == SubSeq(conn.reads, 1, k)
                d == Drain(conn.buffer \o data, conn.dispatched)
            IN  conn' = [conn EXCEPT !.reads = SubSeq(conn.reads, k + 1, Len(conn.reads)),
                                     !.buffer = d.buffer,
                                     !.dispatched = d.dispatched]
    /\ UNCHANGED <<chain, pending, ledger, last, accepted, threads,
                   registry, workers, loops, sent, replicas>>

\* recv returns b"": the peer has closed, the loop is left.
ConnClose ==
    /\ conn.open
    /\ conn.reads = <<>>
    /\ conn' = [conn EXCEPT !.open = FALSE]
    /\ UNCHANGED <<chain, pending, ledger, last, accepted, threads,
                   registry, workers, loops, sent, replicas>>

NextFraming == ConnRecv \/ ConnClose

SpecFraming == InitFraming /\ [][NextFraming]_vars

\* -------------------------------------------------------- malformed frames
\* The message types a node writes: requests and announcements on a
\* connection it opened, replies on a connection it accepted.
Requests ==
    {"request_peers", "health_check", "genesis_health_check", "send_peers",
     "new_block_mined", "new_transaction"}
Replies == {"from_genesis", "health_check_response", "genesis_health_check_response"}

TypeCode(type) ==
    CASE type = "request_peers" -> 1 [] type = "health_check" -> 2
      [] type = "genesis_health_check" -> 3 [] type = "send_peers" -> 4
      [] type = "new_block_mined" -> 5 [] type = "new_transaction" -> 6
      [] type = "from_genesis" -> 7 [] type = "health_check_response" -> 8
      [] OTHER -> 9

\* The payloads of this section.  The text {"type": t, "address": a} is
\* written as the symbol of t and the symbol of a between its braces.
MessageText(type, a) == <<123, TypeCode(type), a, 125>>

\* {"type": "health_check", "address": a}
HealthCheckText(a) == MessageText("health_check", a)

\* {"type": "send_peers", "address": a}: a send_peers message that lacks
\* its list of peers.
SendPeersText(a) == MessageText("send_peers", a)

\* The byte 255 is not UTF-8, "{" is not JSON, "{}" is a message without a
\* type, {"type": "health_check"} a message without its address.
MalformedPayloads ==
    {<<255>>, <<123>>, <<123, 125>>, <<123, TypeCode("health_check"), 125>>}
        \cup {SendPeersText(a) : a \in 1..MaxPeer}

MixedPayloads == MalformedPayloads \cup {HealthCheckText(a) : a \in 1..MaxPeer}

IsMessageText(data, type) ==
    IF Len(data) # 4 THEN FALSE
    ELSE /\ data[1] = 123
         /\ data[2] = TypeCode(type)
         /\ data[3] \in 1..MaxPeer
         /\ data[4] = 125

IsHealthCheckText(data) == IsMessageText(data, "health_check")

IsSendPeersText(data) == IsMessageText(data, "send_peers")

\* Node.process_message on the text of one frame: json.loads, then the
\* branch of message["type"].  json.loads raising, a message that is no
\* object with a "type" and a health_check without an address raise before
\* anything is written; a health_check registers its sender (line 177); a
\* send_peers registers its sender (line 166) and then raises KeyError at
\* message["peers"] (line 167).  Every exception is logged at line 226.
ProcessMessageText(R, data) ==
    IF IsHealthCheckText(data) \/ IsSendPeersText(data)
    THEN AddPeer(R, data[3], MAX_PEERS) ELSE R

RECURSIVE ProcessTexts(_, _)
ProcessTexts(R, texts) ==
    IF texts = <<>> THEN R
    ELSE ProcessTexts(ProcessMessageText(R, Head(texts)), Tail(texts))

\* A connection on which the peer writes well-formed and malformed frames.
InitMalformed ==
    /\ CoreIdle
    /\ registry = NoPeers
    /\ workers = [t \in Handlers |-> WorkerIdle]
    /\ loops = LoopsIdle
    /\ sent = {}
    /\ replicas = <<>>
    /\ \E frames \in UNION {[1..n -> MixedPayloads] : n \in 0..MaxFrames} :
         conn = [open |-> TRUE, frames |-> frames, partial |-> <<>>,
                 reads |-> Encode(frames), buffer |-> <<>>, dispatched |-> <<>>]

\* handle_client, one pass of the outer loop, with process_message run on
\* every frame cut off the buffer.
MalformedRecv ==
    /\ conn.open
    /\ conn.reads # <<>>
    /\ \E k \in 1..Len(conn.reads) :
         /\ k <= RecvSize
         /\ LET data == SubSeq(conn.reads, 1, k)
                d == Drain(conn.buffer \o data, conn.dispatched)
                new == SubSeq(d.dispatched, Len(conn.dispatched) + 1, Len(d.dispatched))
            IN  /\ conn' = [conn EXCEPT
                              !.reads = SubSeq(conn.reads, k + 1, Len(conn.reads)),
                              !.buffer = d.buffer,
                              !.dispatched = d.dispatched]
                /\ registry' = ProcessTexts(registry, new)
                /\ sent' = IF \E i \in 1..Len(new) : IsHealthCheckText(new[i])
                           THEN {Reply(HealthyResponse)} ELSE {}
    /\ UNCHANGED <<chain, pending, ledger, last, accepted, threads,
                   workers, loops, replicas>>

NextMalformed == MalformedRecv \/ ConnClose

SpecMalformed == InitMalformed /\ [][NextMalformed]_vars

\* ------------------------------------------------------- bytes on the wire
\* json.dumps(message).encode(): the text starts with {"ty (123, 34, 116,
\* 121) and ends with }; the type and the address it names are written as
\* one symbol each.
JsonDumps(type, address) == <<123, 34, 116, 121, TypeCode(type), address, 125>>

\* The bytes handed to sendall: length_prefix + message_bytes on the
\* connections a node opens (lines 131, 257, 340, 362, 378), the text alone
\* on the connections it accepted (lines 117, 180, 185).
Written(type, text) == IF type \in Replies THEN text ELSE Frame(text)

\* A node writes one message to a connection whose other end reads frames.
NodeWrites ==
    /\ ~conn.open
    /\ conn.reads = <<>>
    /\ \E type \in Requests \cup Replies, address \in 1..MaxPeer :
         LET text == JsonDumps(type, address)
         IN  conn' = [open |-> TRUE, frames |-> <<text>>, partial |-> <<>>,
                      reads |-> Written(type, text),
                      buffer |-> <<>>, dispatched |-> <<>>]
    /\ UNCHANGED <<chain, pending, ledger, last, accepted, threads,
                   registry, workers, loops, sent, replicas>>

NextWire == NodeWrites \/ ConnRecv \/ ConnClose

SpecWire == Init /\ [][NextWire]_vars

\* ------------------------------------------------- the index of a block
\* The blocks handed to add_block by a peer that numbers them as it likes:
\* built on the tip and mined, one coinbase, any index.
IndexedBlocks(C) ==
    {MinedBlock(i, GetLastBlock(C).hash, <<CoinbaseTo(MINER)>>, 1, Difficulty) :
        i \in 0..MaxChainCb}

\* One call of Blockchain.add_block.
IxAddBlock ==
    /\ last.op = "none"
    /\ \E block \in IndexedBlocks(chain) :
         LET r == AddBlock(chain, pending, ledger, block)
         IN  /\ r.ret = "True" => Len(chain) < MaxChainCb
             /\ chain' = r.chain
             /\ pending' = r.pending
             /\ ledger' = r.ledger
             /\ last' = Call("add_block", NoTx, block, r.ret, "")
             /\ UNCHANGED <<netvars, accepted, threads>>

NextIndex == DoAddTransaction \/ IxAddBlock \/ CbMine \/ Return

SpecIndex == Init /\ [][NextIndex]_vars

\* ------------------------------------------------ the mempool and the miner
\* A node that admits transfers of the seed account, takes blocks from a peer
\* and mines: the peer's block carries its coinbase and one transfer of the
\* seed account, which the node may hold in its mempool or not.
MempoolAmounts == {1 * TenthsPerCoin, 2 * TenthsPerCoin, 3 * TenthsPerCoin}

MempoolTransfers ==
    {WithNonce(SignedTransfer(SEED, a), n) : a \in MempoolAmounts, n \in 0..MaxNonceMp}

\* What a peer's block carries besides the coinbase: one transfer, or one
\* signed transfer three times over under consecutive nonces (the nonce is
\* outside the hash that is signed).
PeerTransfers ==
    {<<tx>> : tx \in MempoolTransfers}
        \cup {<<WithNonce(SignedTransfer(SEED, a), n),
                WithNonce(SignedTransfer(SEED, a), n + 1),
                WithNonce(SignedTransfer(SEED, a), n + 2)>> :
                  a \in MempoolAmounts, n \in 0..(MaxNonceMp - 2)}

PeerBlocks(C) ==
    {MineBlock(NewBlock(Len(C), GetLastBlock(C).hash, <<CoinbaseTo(K2)>> \o txs, 1,
                        NoCounter),
               Difficulty) : txs \in PeerTransfers}

\* One call of Blockchain.add_transaction.
MpAddTransaction ==
    /\ last.op = "none"
    /\ \E tx \in MempoolTransfers :
         LET r == AddTransaction(pending, ledger, tx)
         IN  /\ r.ret = "True" => Len(pending) < MaxPending
             /\ pending' = r.pending
             /\ ledger' = r.ledger
             /\ last' = Call("add_transaction", tx, CreateGenesis, r.ret, "")
             /\ accepted' = IF r.ret = "True" THEN Accept(tx) ELSE accepted
             /\ UNCHANGED <<netvars, chain, threads>>

\* One call of Blockchain.add_block with a block of the peer.
MpAddBlock ==
    /\ last.op = "none"
    /\ Len(chain) < MaxChainMp
    /\ \E block \in PeerBlocks(chain) :
         LET r == AddBlock(chain, pending, ledger, block)
         IN  /\ chain' = r.chain
             /\ pending' = r.pending
             /\ ledger' = r.ledger
             /\ last' = Call("add_block", NoTx, block, r.ret, "")
             /\ UNCHANGED <<netvars, accepted, threads>>

\* One call of Blockchain.mine_pending_transactions that leaves its wait.  The
\* nonces of the admitted transfers bound the blocks it can append.
MpMine ==
    /\ last.op = "none"
    /\ Len(pending) >= MinPendingToMine
    /\ \E rank \in DigestOrders(pending) :
       LET block == AssembleBlock(chain, pending, MINER, 1, rank)
           r == AddBlock(chain, pending, ledger, block)
       IN  /\ chain' = r.chain
           /\ pending' = r.pending
           /\ ledger' = r.ledger
           /\ last' = Call("mine_pending_transactions", NoTx, block,
                           IF r.ret = "True" THEN "Block" ELSE
                           IF r.ret = "False" THEN "None" ELSE "Raise", "")
           /\ UNCHANGED <<netvars, accepted, threads>>

NextMempool == MpAddTransaction \/ MpAddBlock \/ MpMine \/ Return

SpecMempool == Init /\ [][NextMempool]_vars

\* The guard of MpMine: a pass of the mining thread can leave its wait.
MineReady == last.op = "none" /\ Len(pending) >= MinPendingToMine

\* The mining thread of start_extra_threads calls mine_pending_transactions
\* again and again, whatever the handler threads do: a pass that can leave
\* its wait again and again is taken again and again (strong fairness of
\* MpMine, written with its guard), and a call that was made returns.
SpecMempoolFair ==
    /\ Init /\ [][NextMempool]_vars
    /\ WF_vars(Return)
    /\ []<>MineReady => []<><<MpMine>>_vars

\* ------------------------------------------------------------------ claims
RECURSIVE SumBalances(_, _)
SumBalances(L, keys) ==
    IF keys = {} THEN 0
    ELSE LET k == CHOOSE x \in keys : TRUE
         IN  L[k].balance + SumBalances(L, keys \ {k})
TotalMicro(L) == SumBalances(L, DOMAIN L)
BalanceMicroOrZero(L, pk) == IF HasAccount(L, pk) THEN L[pk].balance ELSE 0
CoinbaseCount(block) == Len(SelectSeq(block.transactions, LAMBDA t : t.is_coinbase))
Transfers(block) == SelectSeq(block.transactions, LAMBDA t : ~t.is_coinbase)

\* C1: in every state reached by the threads of a node, each block after
\* the genesis has previous_hash equal to the hash of the block before it
\* (of two blocks built on the same tip at most one is appended).
C1_ChainLinked ==
    \A i \in 2..Len(chain) : chain[i].previous_hash = chain[i - 1].hash

\* C2: an add_block call that does not append the block leaves every
\* balance and nonce of the ledger as it was.
C2_FailedAddBlockLeavesLedger ==
    [][(last'.op = "add_block" /\ last'.ret # "True") => ledger' = ledger]_vars

\* C3: add_block returns False for every block that does not hold exactly
\* one coinbase transaction, and does not append it.
C3_NonSingleCoinbaseRejected ==
    [][(last'.op = "add_block" /\ CoinbaseCount(last'.block) # 1)
          => (last'.ret = "False" /\ chain' = chain)]_vars

\* C4: a call that appends a block raises the sum of all balances by exactly
\* 10.0 coins: the transfers of the block create or destroy nothing.
C4_AcceptedBlockAddsReward ==
    [][(last'.op \in {"add_block", "mine_pending_transactions"} /\ chain' # chain)
          => TotalMicro(ledger') =
                TotalMicro(ledger) + (Reward * TenthsPerCoin) \div TenthsPerMicro]_vars

\* C5: no account of the ledger has a negative balance.
C5_NoNegativeBalance == \A pk \in DOMAIN ledger : ledger[pk].balance >= 0

\* C6: add_transaction(T) returns True exactly when T is valid, no pending
\* transaction has T's tx_hash, the sender has a balance of at least the
\* sum of its pending amounts plus T.amount, and T.nonce is the sender's
\* ledger nonce; in every other case it returns False.
C6_Preconditions(P, L, tx) ==
    /\ TxIsValid(tx) = "True"
    /\ \A i \in 1..Len(P) : P[i].tx_hash # tx.tx_hash
    /\ HasAccount(L, tx.sender)
    /\ GetBalance(L, tx.sender) >= GetAllSpendings(tx.sender, P) + tx.amount
    /\ tx.has_nonce
    /\ tx.nonce = GetNonce(L, tx.sender)
C6_AcceptsExactlyOnPreconditions ==
    [][last'.op = "add_transaction"
          => last'.ret = (IF C6_Preconditions(pending, ledger, last'.tx)
                          THEN "True" ELSE "False")]_vars

\* C7: an accepted transaction raises the sender's ledger nonce by exactly 1
\* and becomes the last pending transaction, and its nonce is one more than
\* the nonce of the transaction accepted from that sender before it.
C7_ConsecutiveNonces ==
    [][(last'.op = "add_transaction" /\ last'.ret = "True")
          => LET tx == last'.tx
             IN  /\ GetNonce(ledger', tx.sender) = GetNonce(ledger, tx.sender) + 1
                 /\ pending' = Append(pending, tx)
                 /\ accepted[tx.sender].has
                        => tx.nonce = accepted[tx.sender].nonce + 1]_vars

\* C8: no two pending transactions have the same tx_hash.
C8_NoDuplicateHash ==
    \A i, j \in 1..Len(pending) :
        i # j => pending[i].tx_hash # pending[j].tx_hash

\* C9: add_transaction(T) called twice in a row leaves the mempool and the
\* ledger as one call leaves them, and the second call returns False.
C9_TwiceAsOnce ==
    [][last'.op = "add_transaction_twice"
          => /\ last'.ret2 = "False"
             /\ IF last'.ret = "True"
                THEN /\ pending' = Append(pending, last'.tx)
                     /\ ledger' = IncrementNonce(ledger, last'.tx.sender)
                ELSE pending' = pending /\ ledger' = ledger]_vars

\* C10: an add_transaction call that returns False leaves the pending
\* transactions and every nonce and balance of the ledger as they were.
C10_RejectionLeavesState ==
    [][(last'.op = "add_transaction" /\ last'.ret = "False")
          => (pending' = pending /\ ledger' = ledger)]_vars

\* A valid transaction of a funded sender is rejected for its nonce while
\* the sender has a transaction pending.
C10_Witness ==
    /\ last.op = "add_transaction"
    /\ last.ret = "False"
    /\ TxIsValid(last.tx) = "True"
    /\ last.tx.has_nonce
    /\ HasAccount(ledger, last.tx.sender)
    /\ last.tx.nonce # GetNonce(ledger, last.tx.sender)
    /\ GetBalance(ledger, last.tx.sender)
          >= GetAllSpendings(last.tx.sender, pending) + last.tx.amount
    /\ Len(pending) > 0

\* C11: no pending transaction is a coinbase transaction or has the sender
\* "COINBASE": add_transaction admits none, whatever the ledger holds.
C11_NoCoinbasePending ==
    \A i \in 1..Len(pending) :
        ~pending[i].is_coinbase /\ pending[i].sender # COINBASE

\* C12: a call that appends a block makes it the last block of the chain and
\* leaves pending exactly the transactions whose tx_hash is not in the block,
\* in their order; after mine_pending_transactions returned a block nothing
\* is pending.
RECURSIVE C12_Remaining(_, _)
C12_Remaining(P, hashes) ==
    IF P = <<>> THEN <<>>
    ELSE IF Head(P).tx_hash \in hashes THEN C12_Remaining(Tail(P), hashes)
    ELSE <<Head(P)>> \o C12_Remaining(Tail(P), hashes)
C12_BlockHashes(block) ==
    {block.transactions[i].tx_hash : i \in 1..Len(block.transactions)}
C13_MinesOnlyWithThreePending ==
    [][last'.op = "mine_pending_transactions"
          => /\ Len(pending) >= MinPendingToMine
             /\ Len(last'.block.transactions) = 1 + Len(pending)
             /\ Len(Transfers(last'.block)) >= MinPendingToMine]_vars

\* The wait itself is left only with three transactions pending.
C13_WaitLeftWithThreePending ==
    [][(threads["mining"].pc = "idle" /\ threads'["mining"].pc = "sort")
          => Len(pending) >= MinPendingToMine]_vars

\* C14: the block built by mine_pending_transactions starts with the coinbase
\* that pays 10.0 to the miner, which is its only coinbase, followed by the
\* transactions that were pending, ascending by tx_hash; the mempool in
\* another order gives the same order of tx_hash.
C14_Count(txs, t) == Cardinality({i \in 1..Len(txs) : txs[i] = t})
C14_Reverse(txs) == [i \in 1..Len(txs) |-> txs[Len(txs) + 1 - i]]
C14_BlockOfPending ==
    [][last'.op = "mine_pending_transactions"
          => LET txs == last'.block.transactions
                 rest == Tail(txs)
             IN  /\ txs[1] = CoinbaseTo(MINER)
                 /\ CoinbaseCount(last'.block) = 1
                 /\ Len(rest) = Len(pending)
                 /\ \A i \in 1..Len(pending) :
                        C14_Count(rest, pending[i]) = C14_Count(pending, pending[i])
                 /\ \E rank \in DigestOrders(pending) :
                        /\ \A i, j \in 1..Len(rest) :
                               i < j => rank[rest[i].tx_hash] <= rank[rest[j].tx_hash]
                        /\ TxHashes(SortByHash(C14_Reverse(pending), rank))
                              = TxHashes(rest)]_vars

\* C15: when the mining thread's add_block appends the candidate (the call
\* returns the block), the chain is one block longer than when the candidate
\* was assembled and ends with the candidate; when its add_block ends without
\* appending (the call returns None), the chain does not hold the candidate.
C15_MinedBlockIsTip ==
    [][LET m == threads["mining"]
       IN  /\ (m.pc = "append" /\ threads'["mining"].pc = "idle")
                => /\ Len(chain') = m.block.index + 1
                   /\ chain'[Len(chain')] = m.block
           /\ (m.pc \in {"validate", "apply"} /\ threads'["mining"].pc = "idle")
                => \A i \in 1..Len(chain') : chain'[i] # m.block]_vars

\* C16: Block.is_valid(difficulty, previous_block) returns True exactly when
\* previous_hash is previous_block.hash, hash starts with `difficulty` zeros,
\* hash is the recomputed hash and every transaction of the block is valid.
C16_BlockIsValidIff ==
    last.op = "block_is_valid"
        => LET b == last.block
               ok == /\ b.previous_hash = GetLastBlock(chain).hash
                     /\ StartsWithZeros(b.hash, Difficulty)
                     /\ b.hash = BlockCalculateHash(b)
                     /\ \A i \in 1..Len(b.transactions) :
                            TxIsValid(b.transactions[i]) = "True"
           IN  last.ret = BoolStr(ok)

\* C17: every block of the chain after the genesis has the hash recomputed
\* from its fields, with at least `difficulty` leading zeros, and holds only
\* transactions that are valid; the signature of each transfer in it verifies
\* against the sender over tx_hash.
C17_ChainBlocksValid ==
    \A i \in 2..Len(chain) :
        /\ chain[i].hash = BlockCalculateHash(chain[i])
        /\ StartsWithZeros(chain[i].hash, Difficulty)
        /\ \A j \in 1..Len(chain[i].transactions) :
             LET tx == chain[i].transactions[j]
             IN  /\ TxIsValid(tx) = "True"
                 /\ ~tx.is_coinbase => Verify(tx.sender, tx.signature, tx.tx_hash)

\* A block with a transfer, received or mined from the mempool, has just been
\* appended.
C17_Witness ==
    /\ Len(chain) = 2
    /\ Len(Transfers(chain[2])) > 0
    /\ last.op \in {"add_block", "mine_pending_transactions"}
    /\ last.ret \in {"True", "Block"}

\* C18: Transaction.is_valid() is True for a coinbase exactly when its amount
\* is 10.0, and for another transaction exactly when sender and signature are
\* set, the signature verifies against the sender over tx_hash, and tx_hash
\* is the hash recomputed from the fields the transaction has now.
C18_TransactionIsValidIff ==
    last.op = "transaction_is_valid"
        => LET tx == last.tx
               ok == IF tx.is_coinbase THEN tx.amount = Reward * TenthsPerCoin
                     ELSE /\ tx.sender # ""
                          /\ tx.signature # NoSignature
                          /\ Verify(tx.sender, tx.signature, tx.tx_hash)
                          /\ tx.tx_hash = TxCalculateHash(tx)
           IN  last.ret = BoolStr(ok)

\* C19: two transactions have the same tx_hash exactly when they agree on
\* is_coinbase, sender, receiver, amount and nonce: assigning another value to
\* one of the five changes the hash.
C19_HashCoversFiveFields ==
    last.op = "calculate_hash" => (last.ret = "Same" <=> last.ret2 = "none")

\* C20: Blockchain.is_valid() is True for a chain built by accepted add_block
\* calls and False once the amount of a transaction of a block or the
\* previous_hash of a block was altered, the hash of the block recomputed or
\* not.
C20_TamperedChainInvalid ==
    last.op = "blockchain_is_valid" => (last.ret = "True" <=> last.ret2 = "none")


\* C22: add_peer with a bound inserts nothing when the registry holds
\* MAX_PEERS or more entries: no row a handler thread adds for a send_peers,
\* from_genesis or health_check message brings the registry above MAX_PEERS
\* entries, whatever the other threads do meanwhile.
C22_RegistryWithinMaxPeers ==
    [][\A t \in Handlers :
         (/\ workers[t].pc = "insert"
          /\ workers'[t].pc = "count"
          /\ GetRows(registry') > GetRows(registry))
            => GetRows(registry') <= MAX_PEERS]_vars

\* C23: when a health-check round has ended, no peer that was registered at
\* its start is left without a connection attempt, whatever the outcomes of
\* the checks were.
C23_RoundAttemptsEveryPeer ==
    loops.health.pc = "sleep" => loops.health.todo = {}

\* C24: the check of a peer P by the health-check loop settles P.  On a Node
\* P is no longer registered when the check ended in an error or a timeout
\* and is still registered when P answered healthy.  On the bootstrap
\* directory P is still registered, flagged offline when the check ended in
\* an error or a timeout, and online and among the rows get_peers selects
\* from when P answered healthy.
C24_Settled(role, R, check) ==
    LET P == check.peer
    IN  IF role = "node"
        THEN IF check.outcome = "healthy" THEN P \in DOMAIN R
             ELSE P \notin DOMAIN R
        ELSE /\ P \in DOMAIN R
             /\ IF check.outcome = "healthy"
                THEN ~R[P] /\ P \in Candidates(R, NoAddr)
                ELSE R[P]
C24_CheckSettlesPeer ==
    [][(loops.health.pc = "round" /\ loops'.health # loops.health)
          => C24_Settled(loops'.health.role, registry', loops'.health.checked)]_vars

\* C25: a gossip round contacts the bootstrap directory only when the node
\* has no online peer.  The node's own address is never in its registry and
\* never dialed; a round sends send_peers to at most GOSSIP_COUNT peers, and
\* every send_peers carries the node's address and at most 2 peers, the
\* recipient not among them.
C25_SendPeers == {m \in sent : m.type = "send_peers"}
C25_GossipState ==
    /\ Self \notin DOMAIN registry
    /\ Cardinality({m.to : m \in C25_SendPeers}) <= GOSSIP_COUNT
    /\ \A m \in C25_SendPeers :
         /\ m.to # Self
         /\ m.address = Self
         /\ Cardinality(m.peers) <= 2
         /\ m.to \notin m.peers
C25_GossipRound ==
    /\ []C25_GossipState
    /\ [][(\E m \in sent' : m.type = "request_peers")
             => Candidates(registry, NoAddr) = {}]_vars

\* C26: the bootstrap directory registers the requester of a request_peers,
\* keeps waiting while fewer than GOSSIP_COUNT (3) other online peers are
\* registered, and ends the wait with one from_genesis message that lists
\* exactly 3 registered online peers, the requester not among them.
C26_AnswersWithThreePeers ==
    [][\A t \in DOMAIN workers :
         LET requester == workers[t].address
         IN  /\ (workers[t].pc = "idle" /\ workers'[t].pc = "poll")
                    => workers'[t].address \in DOMAIN registry'
             /\ (/\ workers[t].pc = "poll"
                 /\ Cardinality(Candidates(registry, requester))
                        < BootstrapNode_GOSSIP_COUNT)
                    => workers'[t].pc = "poll"
             /\ (workers[t].pc = "poll" /\ workers'[t].pc = "idle")
                    => /\ Cardinality(sent') = 1
                       /\ \A m \in sent' :
                            /\ m.type = "from_genesis"
                            /\ m.delivered
                            /\ Cardinality(m.peers) = BootstrapNode_GOSSIP_COUNT
                            /\ m.peers \subseteq DOMAIN registry
                            /\ requester \notin m.peers
                            /\ \A p \in m.peers : ~registry[p]]_vars

\* A request_peers has been answered while a registered peer is offline.
C26_Witness ==
    /\ \E m \in sent : m.type = "from_genesis"
    /\ \E a \in DOMAIN registry : registry[a]
    /\ \E t \in DOMAIN workers : workers[t].pc = "poll"

\* C27: a call of broadcast dials every peer that get_all_peers returned when
\* it was called, each once; every peer whose dial or send failed is removed
\* from the registry by the call before it returns; the call removes no
\* other peer, so that a peer it reached stays registered with its flag
\* unchanged.
C27_BroadcastDialsAndPrunes ==
    [][LET b == loops.broadcast
           after == loops'.broadcast
       IN  /\ (b.pc = "call" /\ after.pc = "dial")
                 => /\ after.peers = GetAllPeers(registry)
                    /\ after.todo = after.peers
                    /\ after.sent = {}
           /\ (b.pc = "dial" /\ after.pc = "idle")
                 => /\ {m.to : m \in b.sent} = b.peers
                    /\ Cardinality(b.sent) = Cardinality(b.peers)
                    /\ \A m \in b.sent :
                         /\ m.address = Self
                         /\ ~m.delivered <=> m.to \in b.removed
           /\ (\E a \in DOMAIN registry : a \notin DOMAIN registry')
                 => \E m \in b.sent :
                      /\ ~m.delivered
                      /\ registry' = RemovePeer(registry, m.to)
                      /\ after.removed = b.removed \cup {m.to}
           /\ \A m \in after.sent :
                 (m.delivered /\ m.to \in DOMAIN registry)
                     => /\ m.to \in DOMAIN registry'
                        /\ registry'[m.to] = registry[m.to]]_vars

\* A broadcast that reached one peer and failed to reach another, which it
\* has removed.
C27_Witness ==
    /\ last.op = "broadcast"
    /\ loops.broadcast.todo = {}
    /\ loops.broadcast.failed = {}
    /\ \E m, n \in loops.broadcast.sent :
         /\ m.delivered /\ m.to \in GetAllPeers(registry)
         /\ ~n.delivered /\ n.to \in loops.broadcast.removed
                          /\ n.to \notin GetAllPeers(registry)

\* C28: the mining loop never stops, and a pass whose mining call returned a
\* block announces it with new_block_mined to the peers get_all_peers
\* returns, whatever the registry holds.
C28_MiningLoopNeverStops ==
    /\ [](loops.mining # "dead")
    /\ [][(loops.mining = "broadcast" /\ loops'.mining # "broadcast") =>
             /\ loops'.mining = "running"
             /\ {m.to : m \in loops.broadcast.sent} = loops.broadcast.peers
             /\ \A m \in loops.broadcast.sent : m.type = "new_block_mined"]_vars

\* Without the state of the loop: a broadcast of the mining loop that
\* returns has written new_block_mined to every peer get_all_peers returned.
C28_MinedBlockAnnounced ==
    [][(loops.mining = "broadcast" /\ loops'.mining = "running") =>
          /\ {m.to : m \in loops.broadcast.sent} = loops.broadcast.peers
          /\ loops.broadcast.peers # {}
          /\ \A m \in loops.broadcast.sent : m.type = "new_block_mined"]_vars

\* C29: a handler that took a received block or transaction enters broadcast
\* with new_block_mined (new_transaction) when add_block (add_transaction)
\* returned True and not otherwise; the broadcast writes that message, with
\* the node's address, to every peer get_all_peers returned; nothing is
\* written to any peer for a block or transaction that was not accepted.
C29_ForwardsIffAccepted ==
    [][LET b == loops.broadcast
           after == loops'.broadcast
       IN  /\ (last.op = "none" /\ last'.op \in {"new_block_mined", "new_transaction"})
                 => IF last'.ret = "True" THEN after = CallBroadcast(last'.op)
                    ELSE after = NoBroadcast /\ registry' = registry
           /\ after.pc # "idle"
                 => /\ last'.op = after.type
                    /\ last'.ret = "True"
                    /\ \A m \in after.sent : m.type = last'.op /\ m.address = Self
           /\ (b.pc = "dial" /\ after.pc = "idle")
                 => {m.to : m \in b.sent} = b.peers]_vars

\* An accepted block has been written to a registered peer.
C29_Witness ==
    /\ last.op = "new_block_mined"
    /\ last.ret = "True"
    /\ Len(chain) = 2
    /\ \E m \in loops.broadcast.sent : m.type = "new_block_mined" /\ m.delivered

\* A rejected transaction was not sent on although a peer is registered.
C29_WitnessRejected ==
    /\ last.op = "new_transaction"
    /\ last.ret # "True"
    /\ GetAllPeers(registry) # {}
    /\ loops.broadcast = NoBroadcast

\* No transaction rebuilt from a message is accepted: the object has no
\* attribute nonce.
C29_ReceivedTransactionNotAccepted ==
    last.op = "new_transaction" => last.ret # "True"

\* C21: when the nodes hold the same chain, one of them mines a block and
\* that block is the first to reach another node, that node appends it and
\* holds the chain of the miner; so do all nodes once it has reached each.
C21_NodesConverge ==
    [][\A n, m \in NetNodes : \A d \in BagToSet(replicas.wire) :
         LET miner == replicas.node[n].chain
             mine == replicas.node[m].chain
         IN  (/\ n # m
              /\ d.to = m
              /\ replicas'.wire = replicas.wire (-) SetToBag({d})
              /\ Len(miner) = Len(mine) + 1
              /\ ChainHashes(SubSeq(miner, 1, Len(mine))) = ChainHashes(mine)
              /\ BlockToDict(miner[Len(miner)]) = d.block
              /\ \A k \in NetNodes \ {n} :
                    \/ ChainHashes(replicas.node[k].chain) = ChainHashes(mine)
                    \/ ChainHashes(replicas.node[k].chain) = ChainHashes(miner))
             => ChainHashes(replicas'.node[m].chain) = ChainHashes(miner)]_vars

\* A delivered block is never appended: handling a new_block_mined message
\* leaves the chain, the mempool and the dials of every node as they were.
C21_DeliveredBlockNeverAppended ==
    [][BagCardinality(replicas'.wire) < BagCardinality(replicas.wire)
       => \A n \in NetNodes :
            /\ replicas'.node[n].chain = replicas.node[n].chain
            /\ replicas'.node[n].pending = replicas.node[n].pending
            /\ replicas'.node[n].out = replicas.node[n].out]_vars

\* The texts process_message is called with when the payloads `frames` are
\* decoded one after the other.
Texts(frames) == [i \in 1..Len(frames) |-> Decode(frames[i]).text]

\* The bytes of the stream that are neither in the buffer nor still to come
\* are the first n frames, the buffer holds no complete frame, and when all
\* bytes have arrived the incomplete frame alone is in the buffer.
C30_Cut(n) ==
    /\ Encode(SubSeq(conn.frames, n + 1, Len(conn.frames))) \o conn.partial
          = conn.buffer \o conn.reads
    /\ n < Len(conn.frames) => Len(conn.buffer) < Len(Frame(conn.frames[n + 1]))
    /\ conn.reads = <<>> => n = Len(conn.frames) /\ conn.buffer = conn.partial

\* C30: however the bytes of a stream of frames are split into reads, the
\* payloads dispatched are the payloads of the complete frames of the
\* stream, each once and in order; the bytes of an incomplete frame are in
\* the buffer until the rest arrives, and when all bytes have arrived every
\* complete frame has been dispatched.
C30_FramesDispatchedInOrder ==
    \E n \in 0..Len(conn.frames) :
        /\ C30_Cut(n)
        /\ conn.dispatched = Texts(SubSeq(conn.frames, 1, n))

\* C30 as amended: the payloads dispatched are those of the complete frames
\* that are valid UTF-8, decoded, each once and in order; a complete frame
\* whose payload is not valid UTF-8 is cut off the buffer and dropped.
C30_DecodableFramesDispatchedInOrder ==
    \E n \in 0..Len(conn.frames) :
        /\ C30_Cut(n)
        /\ conn.dispatched = Texts(SelectSeq(SubSeq(conn.frames, 1, n), Decodable))

\* The first of two frames, a two-byte UTF-8 sequence, has been dispatched
\* as one code point; the prefix and one byte of the payload of the second
\* are buffered, its rest is still to come.
C30_Witness ==
    /\ conn.open
    /\ conn.reads # <<>>
    /\ Len(conn.frames) = 2
    /\ conn.frames[1] = <<195, 169>>
    /\ conn.dispatched = <<(<<233>>)>>
    /\ Len(conn.buffer) > 4

\* A frame that is not valid UTF-8 was cut off and dropped, the frame after
\* it dispatched.
C30_WitnessDropped ==
    /\ conn.reads = <<>>
    /\ Len(conn.frames) = 2
    /\ ~Decodable(conn.frames[1])
    /\ conn.dispatched = <<(<<123>>)>>

\* The senders of the health_check frames among `frames`.
C31_WellFormed(frames) ==
    {frames[i][3] : i \in {j \in 1..Len(frames) : IsHealthCheckText(frames[j])}}

\* C31: a frame whose payload does not decode or is no JSON message the
\* node can read changes neither chain, mempool, ledger nor peer registry,
\* and every complete frame after it on the connection is still handled:
\* once all bytes have arrived the registry holds exactly the senders of the
\* well-formed frames and every frame that decodes was handed to
\* process_message, in order.
C31_MalformedFrameDropped ==
    /\ chain = <<CreateGenesis>>
    /\ pending = <<>>
    /\ ledger = InitialLedger
    /\ GetAllPeers(registry) \subseteq C31_WellFormed(conn.frames)
    /\ conn.reads = <<>> =>
          /\ conn.dispatched = Texts(SelectSeq(conn.frames, Decodable))
          /\ GetAllPeers(registry) = C31_WellFormed(conn.frames)
          /\ conn.buffer = <<>>

\* The same on the connections that carry no send_peers message: a payload
\* that is not UTF-8, not JSON, without a type or without an address is
\* dropped with nothing changed.
C31_UnreadableFrameDropped ==
    (\A i \in 1..Len(conn.frames) : ~IsSendPeersText(conn.frames[i]))
        => C31_MalformedFrameDropped

\* C32: what a node writes to a connection is the 4-byte big-endian length
\* of the JSON text followed by the text, for every message type, the
\* replies included; a reader of frames is handed every message written.
C32_EveryMessageFramed ==
    /\ Encode(conn.dispatched) \o conn.buffer \o conn.reads = Encode(conn.frames)
    /\ (conn.reads = <<>> /\ conn.buffer = <<>>) => conn.dispatched = conn.frames

\* The same for the messages a node writes on the connections it opened.
C32_RequestsFramed ==
    (conn.frames # <<>> /\ conn.frames[1][5] <= 6) =>
        Encode(conn.dispatched) \o conn.buffer \o conn.reads = Encode(conn.frames)

\* C33: after the initialization of the ledger on an empty store, the
\* balance of the seed key is 10,000,000 coins, stored as 10,000,000 x
\* 1,000,000 micro-units, and its nonce is 0.
C33_SeedBalance ==
    ledger = InitialLedger =>
        /\ HasAccount(ledger, SEED)
        /\ GetBalance(ledger, SEED) \div TenthsPerCoin = 10000000
        /\ ledger[SEED].balance \div (TenthsPerCoin \div TenthsPerMicro) = 10000000
        /\ GetNonce(ledger, SEED) = 0

\* What initialization leaves: the row holds 10,000,000 micro-units, which
\* get_balance reads as 10 coins, and the nonce 0.
C33_SeedBalanceTenCoins ==
    ledger = InitialLedger =>
        /\ HasAccount(ledger, SEED)
        /\ GetBalance(ledger, SEED) = 10 * TenthsPerCoin
        /\ ledger[SEED].balance = 10000000
        /\ GetNonce(ledger, SEED) = 0

\* C34: every block of the chain has the index of its position.
C34_IndexIsPosition == \A i \in 1..Len(chain) : chain[i].index = i - 1

\* The blocks the node mines itself carry the index of their position.
C34_MinedIndexIsPosition ==
    [][(last'.op = "mine_pending_transactions" /\ last'.ret = "Block") =>
          /\ last'.block.index = Len(chain)
          /\ chain' = Append(chain, last'.block)]_vars

\* C35: a block that add_block accepted carries, for every sender, nonces
\* that are consecutive and start at the sender's ledger nonce, as it was
\* when add_block was called, minus the number of the sender's transactions
\* in the block.
C35_ConsecutiveNonces(L, block) ==
    \A i \in 1..Len(block.transactions) :
        LET sender == block.transactions[i].sender
            group == GetAllTransactionsFromSender(sender, block.transactions)
            nonces == {group[j].nonce : j \in 1..Len(group)}
        IN  sender # COINBASE =>
               /\ HasAccount(L, sender)
               /\ \A j \in 1..Len(group) : group[j].has_nonce
               /\ nonces = (GetNonce(L, sender) - Len(group))..(GetNonce(L, sender) - 1)

C35_AcceptedBlockHasExpectedNonces ==
    [][(last.op = "none" /\ last'.op = "add_block" /\ last'.ret = "True") =>
          C35_ConsecutiveNonces(ledger, last'.block)]_vars

\* An accepted block that carries two transfers of one sender.
C35_Witness ==
    /\ last.op = "add_block"
    /\ last.ret = "True"
    /\ Len(GetAllTransactionsFromSender(SEED, last.block.transactions)) = 2

\* C36: a transaction leaves pending_transactions only through an add_block
\* whose block holds its tx_hash, whatever the other threads do meanwhile.
C36_InBlock(tx, block) ==
    \E j \in 1..Len(block.transactions) : block.transactions[j].tx_hash = tx.tx_hash

C36_Kept(tx, P) == \E j \in 1..Len(P) : P[j] = tx

C36_NoAdmittedTransactionLost ==
    [][\A i \in 1..Len(pending) :
          C36_Kept(pending[i], pending') \/
             \E t \in Threads : /\ threads[t].pc = "store"
                                /\ threads'[t].pc = "append"
                                /\ C36_InBlock(pending[i], threads[t].block)]_vars

\* The same when add_block and add_transaction run one after the other.
C36_NoneLostSequential ==
    [][\A i \in 1..Len(pending) :
          C36_Kept(pending[i], pending') \/
             /\ last'.op \in {"add_block", "mine_pending_transactions"}
             /\ C36_InBlock(pending[i], last'.block)]_vars

\* C37: the block mine_pending_transactions assembles from the mempool is
\* accepted by its add_block when nothing else ran in between: the call
\* returns the block.
C37_MinedBlockAccepted ==
    [][(last.op = "none" /\ last'.op = "mine_pending_transactions") =>
          /\ last'.ret = "Block"
          /\ chain' = Append(chain, last'.block)]_vars

\* The same for a mempool that only admissions have touched: no block was
\* applied before the one mined.
C37_MinedFirstBlockAccepted ==
    [][(last.op = "none" /\ last'.op = "mine_pending_transactions"
            /\ chain = <<CreateGenesis>> /\ \A k \in DOMAIN ledger : k = SEED) =>
          /\ last'.ret = "Block"
          /\ chain' = Append(chain, last'.block)]_vars

\* C38: with the mining thread scheduled fairly, no transaction stays in the
\* mempool for ever while at least three are pending: an accepted block
\* removes it, the mempool does not stay stuck with transactions whose block
\* add_block rejects every time.
C38_Stuck(tx) ==
    /\ Len(pending) >= MinPendingToMine
    /\ \E j \in 1..Len(pending) : pending[j] = tx

C38_AdmittedEventuallyRemoved ==
    \A tx \in MempoolTransfers : C38_Stuck(tx) ~> ~C38_Stuck(tx)

\* C39: no transfer is applied twice: the non-coinbase transactions of the
\* chain have pairwise different tx_hash values, across blocks and within a
\* block.
C39_Transfers(C) ==
    UNION {{<<i, j>> : j \in {k \in 1..Len(C[i].transactions) :
                                ~C[i].transactions[k].is_coinbase}} : i \in 1..Len(C)}

C39_NoTransferTwice ==
    \A p, q \in C39_Transfers(chain) :
        p # q => chain[p[1]].transactions[p[2]].tx_hash
                    # chain[q[1]].transactions[q[2]].tx_hash

\* C40: for every sender, the amounts of its pending transactions sum to at
\* most its ledger balance, also after blocks of peers were applied.
C40_PendingWithinBalance ==
    \A sender \in {SEED, K2} :
        GetAllSpendings(sender, pending) <= GetBalanceOrZero(ledger, sender)

\* The same between calls on a node that has applied no block of a peer.
C40_PendingWithinBalanceOwnBlocks ==
    (last.op = "none" /\ \A i \in 2..Len(chain) :
                             chain[i].transactions[1].receiver = MINER) =>
        C40_PendingWithinBalance
====
